---- MODULE Spec2Model ----
(***************************************************************************)
(* Source acquisition and relevance ranking engine of the research         *)
(* backend: ResearchAgent (src/agents/research_agent.py), its              *)
(* configuration (src/agents/config.py) and the trusted-domain registry    *)
(* (src/trusted_domains.py).                                               *)
(*                                                                         *)
(* A URL is a record [netloc, path]; a netloc is the sequence of its       *)
(* dot-separated labels.  A relevance score is an integer number of        *)
(* hundredths (0..100).  A dict is a function whose DOMAIN is its key set. *)
(***************************************************************************)
EXTENDS Integers, Sequences, FiniteSets, TLC

VARIABLES
    Config,            \* the Config class attributes read by ResearchAgent
    phase,             \* position of the selection harness (SpecSelect)
    all_sources,       \* process(): the flattened pool handed to selection
    unique_sources,    \* process(): the pool after (url, paragraph_id) dedup
    pass1_sources,     \* process(): final_sources after the first pass
    pass2_sources,     \* process(): final_sources after the second pass
    final_sources,     \* process(): the list returned
    pc,                \* process_iterative(): where the session is suspended
    max_iterations,    \* process_iterative(): its max_iterations argument
    iteration,         \* process_iterative(): the round being run
    query_terms,       \* query_analysis['search_terms']
    search_terms,      \* process(): the search_terms list of this round
    search_history,    \* process_iterative(): terms searched so far
    tasks,             \* process(): one search_and_extract coroutine per term
    seen_urls,         \* process(): URLs claimed in this round
    iterative_sources, \* process_iterative(): its all_sources
    returned,          \* process_iterative(): the list it returns
    follow_ups,        \* history: what _extract_follow_up_topics returned, per call
    search_calls,      \* history: calls to the search provider so far
    fetch_calls,       \* history: page fetches so far
    extract_count,     \* history: extractor invocations per URL in this round
    round1,            \* history: [sources, search_calls, fetch_calls] at the end of round 1
    answers,           \* history: what the text generation answered to each follow-up prompt
    expansion,         \* history: what it answered to the expansion prompt of the latest round
    extract_pc,        \* extract_content_with_sections(): where the call stands
    extract_url,       \* extract_content_with_sections(): its url argument
    response,          \* extract_content_with_sections(): the document fetched and parsed
    heading_idx,       \* extract_content_with_sections(): idx, the heading the loop is at
    sections,          \* extract_content_with_sections(): its sections list
    extract_failed,    \* history: an exception was raised inside the try block
    extract_result,    \* extract_content_with_sections(): the list it returned
    classify_calls,    \* history: the calls of get_domain_trust_info, [url, info] each
    content,           \* _calculate_advanced_relevance_score(): its content argument
    keywords,          \* _calculate_advanced_relevance_score(): its keywords argument
    section_name,      \* _calculate_advanced_relevance_score(): its section_name argument
    title,             \* _calculate_advanced_relevance_score(): its title argument
    scored,            \* history: per url scored with these arguments, what the call did
    search_pc,         \* search_web(): where the call stands
    search_query,      \* search_web(): its query argument
    provider_calls,    \* history: the calls of DDGS.text, [query, params, max_results, ok] each
    search_result,     \* search_web(): the list it returned
    searches_remaining,\* user_subscriptions.searches_remaining of the user
    lifecycles,        \* execute_search(): per call, where it stands and its locals
    deliveries,        \* process_webhook(): per delivery, its worker, event and position
    processed_events,  \* WebhookIdempotency.processed_events of each worker process
    webhooks_table,    \* event_id column of the table lemon_squeezy_webhooks
    applied,           \* history: per event_id, the runs of _process_event that took effect
    summarizer_pc,     \* SummarizerAgent.process(): where the call stands
    summarize_sources, \* SummarizerAgent.process(): the content of each of its sources
    summarize_tasks,   \* SummarizerAgent.process(): one bounded_summarize coroutine per valid source
    semaphore          \* SummarizerAgent.process(): the value of its semaphore

selectVars == <<all_sources, unique_sources, pass1_sources, pass2_sources,
                final_sources>>

loopVars == <<pc, max_iterations, iteration, query_terms, search_terms,
              search_history, iterative_sources, returned, follow_ups, round1,
              answers, expansion>>

taskVars == <<tasks, seen_urls, search_calls, fetch_calls, extract_count>>

extractVars == <<extract_pc, extract_url, response, heading_idx, sections, extract_failed,
                 extract_result>>

scoreVars == <<content, keywords, section_name, title, scored>>

searchVars == <<search_pc, search_query, provider_calls, search_result>>

\* The state of the services around the research agent.
quotaVars == <<searches_remaining, lifecycles>>

hookVars == <<deliveries, processed_events, webhooks_table, applied>>

summaryVars == <<summarizer_pc, summarize_sources, summarize_tasks, semaphore>>

serviceVars == <<searchVars, quotaVars, hookVars, summaryVars>>

\* The state of the calls of the extractor, the classifier, the scorer and
\* the services that are looked at on their own.
pureVars == <<extractVars, classify_calls, scoreVars, serviceVars>>

vars == <<Config, phase, selectVars, loopVars, taskVars, pureVars>>

\* The value of expansion before an expansion prompt has been answered.
NoExpansion == [ok |-> FALSE, terms |-> <<>>]

(***************************************************************************)
(* Bounds of the model.                                                    *)
(***************************************************************************)
MaxPages == 2        \* pages concatenated into a pool given to selection
MaxRounds == 2       \* largest max_iterations a session is started with
MaxHeadings == 3     \* headings of a page whose section is kept
MaxKeywords == 2     \* keywords handed to the relevance scorer
MaxQuota == 2        \* searches a user has left when the calls start
MaxDeliveries == 2   \* deliveries of webhook events
MaxSummarized == 3   \* sources handed to the summarizer

(***************************************************************************)
(* Program constants.                                                      *)
(***************************************************************************)
MIN_SOURCES == 15

\* The configurations explored: the shipped one (config.py), the one of the
\* specification's scenario (cap 5, budget 10), one whose trusted quota is
\* wider than the trusted domain cap, and one whose budget exceeds the floor.
\* The class attributes of Config as shipped (config.py lines 32-116).
ShippedConfig ==
    [ MAX_RESULTS_PER_SEARCH          |-> 2,
      MAX_SOURCES_PER_DOMAIN_PER_TERM |-> 2,
      MAX_SOURCES_PER_DOMAIN_FINAL    |-> 5,
      MAX_TOTAL_SOURCES               |-> 8 ]

WithFinal(total, per_domain) ==
    [ShippedConfig EXCEPT !.MAX_TOTAL_SOURCES = total,
                          !.MAX_SOURCES_PER_DOMAIN_FINAL = per_domain]

Configs ==
    { ShippedConfig, WithFinal(10, 5), WithFinal(6, 1), WithFinal(20, 5) }

\* No call of the extractor, the classifier or the scorer is being looked at.
ExtractIdle ==
    /\ extract_pc = "idle"
    /\ extract_url = <<>>
    /\ response = <<>>
    /\ heading_idx = 0
    /\ sections = <<>>
    /\ extract_failed = FALSE
    /\ extract_result = <<>>

ScoreIdle ==
    /\ content = <<>>
    /\ keywords = <<>>
    /\ section_name = <<>>
    /\ title = <<>>
    /\ scored = <<>>

SearchIdle ==
    /\ search_pc = "idle"
    /\ search_query = ""
    /\ provider_calls = <<>>
    /\ search_result = <<>>

QuotaIdle ==
    /\ searches_remaining = 0
    /\ lifecycles = <<>>

HookIdle ==
    /\ deliveries = <<>>
    /\ processed_events = <<>>
    /\ webhooks_table = {}
    /\ applied = <<>>

SummaryIdle ==
    /\ summarizer_pc = "idle"
    /\ summarize_sources = <<>>
    /\ summarize_tasks = <<>>
    /\ semaphore = 0

ServiceIdle == SearchIdle /\ QuotaIdle /\ HookIdle /\ SummaryIdle

PureIdle == ExtractIdle /\ classify_calls = <<>> /\ ScoreIdle /\ ServiceIdle

(***************************************************************************)
(* dict helpers: d.get(k, 0) and d[k] = d.get(k, 0) + 1                    *)
(***************************************************************************)
Get(d, k) == IF k \in DOMAIN d THEN d[k] ELSE 0

Incr(d, k) == [x \in (DOMAIN d) \cup {k} |-> IF x = k THEN Get(d, k) + 1 ELSE d[x]]

EmptyDict == [x \in {} |-> 0]

(***************************************************************************)
(* TrustedDomains (src/trusted_domains.py)                                 *)
(***************************************************************************)
\* str.lower() on one label; the labels of the model that carry capitals.
Lower(label) ==
    CASE label = "WWW" -> "www"
      [] label = "MIT" -> "mit"
      [] label = "EDU" -> "edu"
      [] OTHER -> label

LowerAll(labels) == [i \in 1..Len(labels) |-> Lower(labels[i])]

\* urlparse(url).netloc.lower()
netloc_lower(url) == LowerAll(url.netloc)

\* TrustedDomains._extract_domain: lower-cased netloc without a leading "www."
extract_domain(url) ==
    LET domain == netloc_lower(url)
    IN  IF Len(domain) > 1 /\ domain[1] = "www" THEN Tail(domain) ELSE domain

TRUST_FLAGS ==
    [ academic_research_trusted       |-> 95,
      official_government_trusted     |-> 90,
      peer_reviewed_science           |-> 90,
      mainstream_verified_media       |-> 80,
      technical_documentation_trusted |-> 85,
      educational_open_trusted        |-> 75,
      independent_factcheck_trusted   |-> 85 ]

\* The registry sets, each restricted to the members the model's URLs can hit.
ACADEMIC_DOMAINS    == { <<"mit", "edu">>, <<"stanford", "edu">>, <<"ethz", "ch">> }
GOVERNMENT_DOMAINS  == { <<"nasa", "gov">>, <<"who", "int">> }
SCIENCE_DOMAINS     == { <<"nature", "com">>, <<"arxiv", "org">>,
                         <<"ncbi", "nlm", "nih", "gov">> }
MEDIA_DOMAINS       == { <<"bbc", "com">>, <<"reuters", "com">> }
TECH_DOMAINS        == { <<"github", "com">>, <<"aws", "amazon", "com">> }
EDUCATIONAL_DOMAINS == { <<"wikipedia", "org">>, <<"ted", "com">> }
FACTCHECK_DOMAINS   == { <<"snopes", "com">>, <<"factcheck", "org">> }

\* The registry in the order get_domain_trust_info walks it.
RegistryOrder ==
    << <<"academic_research_trusted",       ACADEMIC_DOMAINS>>,
       <<"official_government_trusted",     GOVERNMENT_DOMAINS>>,
       <<"peer_reviewed_science",           SCIENCE_DOMAINS>>,
       <<"mainstream_verified_media",       MEDIA_DOMAINS>>,
       <<"technical_documentation_trusted", TECH_DOMAINS>>,
       <<"educational_open_trusted",        EDUCATIONAL_DOMAINS>>,
       <<"independent_factcheck_trusted",   FACTCHECK_DOMAINS>> >>

\* re.search(r'\.a\.b$', domain): the domain ends with the labels of suffix,
\* preceded by a dot (so at least one more character comes before them).
EndsWithLabels(domain, suffix) ==
    /\ Len(domain) > Len(suffix)
    /\ SubSeq(domain, Len(domain) - Len(suffix) + 1, Len(domain)) = suffix

\* DOMAIN_PATTERNS in dict order: category, then its suffix patterns.
DOMAIN_PATTERNS ==
    << <<"academic_research_trusted",
         { <<"edu">>, <<"ac", "uk">>, <<"edu", "au">>, <<"ac", "jp">>, <<"ca">> }>>,
       <<"official_government_trusted",
         { <<"gov">>, <<"gov", "uk">>, <<"gov", "au">>, <<"gc", "ca">>,
           <<"europa", "eu">>, <<"int">> }>> >>

get_category_name(trust_flag) ==
    CASE trust_flag = "academic_research_trusted"       -> "Academic & Research Institution"
      [] trust_flag = "official_government_trusted"     -> "Government & Intergovernmental"
      [] trust_flag = "peer_reviewed_science"           -> "Scientific & Technical Publisher"
      [] trust_flag = "mainstream_verified_media"       -> "Established News & Media"
      [] trust_flag = "technical_documentation_trusted" -> "Technology & Industry Authority"
      [] trust_flag = "educational_open_trusted"        -> "Educational & Knowledge Repository"
      [] trust_flag = "independent_factcheck_trusted"   -> "Independent Fact-Checking Organization"
      [] OTHER -> "Unknown Category"

TrustedInfo(category, domain) ==
    [ trust_flag  |-> category,
      trust_score |-> TRUST_FLAGS[category],
      is_trusted  |-> TRUE,
      category    |-> get_category_name(category),
      domain      |-> domain ]

\* Mutant of get_domain_trust_info: the suffix patterns are tried before
\* the registry sets.
get_domain_trust_info_patterns_first(url) ==
    LET domain == extract_domain(url)
        exact  == { i \in 1..Len(RegistryOrder) : domain \in RegistryOrder[i][2] }
        pats   == { i \in 1..Len(DOMAIN_PATTERNS) :
                      \E p \in DOMAIN_PATTERNS[i][2] : EndsWithLabels(domain, p) }
        first(S) == CHOOSE i \in S : \A j \in S : i <= j
    IN  IF pats # {} THEN TrustedInfo(DOMAIN_PATTERNS[first(pats)][1], domain)
        ELSE IF exact # {} THEN TrustedInfo(RegistryOrder[first(exact)][1], domain)
        ELSE [ trust_flag  |-> "unverified",
               trust_score |-> 50,
               is_trusted  |-> FALSE,
               category    |-> "Unverified Source",
               domain      |-> domain ]

\* TrustedDomains.get_domain_trust_info
get_domain_trust_info(url) ==
    LET domain == extract_domain(url)
        exact  == { i \in 1..Len(RegistryOrder) : domain \in RegistryOrder[i][2] }
        pats   == { i \in 1..Len(DOMAIN_PATTERNS) :
                      \E p \in DOMAIN_PATTERNS[i][2] : EndsWithLabels(domain, p) }
        first(S) == CHOOSE i \in S : \A j \in S : i <= j
    IN  IF exact # {} THEN TrustedInfo(RegistryOrder[first(exact)][1], domain)
        ELSE IF pats # {} THEN TrustedInfo(DOMAIN_PATTERNS[first(pats)][1], domain)
        ELSE [ trust_flag  |-> "unverified",
               trust_score |-> 50,
               is_trusted  |-> FALSE,
               category    |-> "Unverified Source",
               domain      |-> domain ]

\* TrustedDomains.is_trusted_domain
is_trusted_domain(url) == get_domain_trust_info(url).is_trusted

(***************************************************************************)
(* Content extraction (ResearchAgent.extract_content_with_sections)        *)
(*                                                                         *)
(* What a fetch returns is a document [v, n]: version v of the page with n *)
(* sections that pass the inclusion test.  The version fixes the text of   *)
(* the sections, hence their content hashes and their relevance scores.    *)
(***************************************************************************)
Versions == {1, 2}

SectionCounts == {1, 6, 11}

\* hashlib.md5(content[:100]).hexdigest()[:8] of section idx in version v:
\* the text of a section differs between versions of a page.
ContentHash(v, idx) == v

\* The score the relevance scorer gives section idx of version v, in
\* hundredths: version 1 ranks later sections higher, version 2 gives every
\* other section the same score (ties).
SectionScore(v, idx) ==
    IF v = 1 THEN IF 30 + 5 * idx > 100 THEN 100 ELSE 30 + 5 * idx
    ELSE 40 + 20 * (idx % 2)

\* The text of section idx in version v of a page.
SectionText(v, idx) == <<"text", v, idx>>

\* Mutant of MakeSource: the identifier is made of the heading index and the
\* time of the extraction.
MakeSourceStamped(url, doc, idx, now) ==
    LET trust_info == get_domain_trust_info(url)
    IN  [ url             |-> url,
          paragraph_id    |-> <<idx, now>>,
          content         |-> SectionText(doc.v, idx),
          relevance_score |-> SectionScore(doc.v, idx),
          timestamp       |-> now,
          trust_flag      |-> trust_info.trust_flag,
          trust_score     |-> trust_info.trust_score,
          is_trusted      |-> trust_info.is_trusted,
          trust_category  |-> trust_info.category,
          domain          |-> trust_info.domain ]

\* One SourceMetadata built at lines 261-273; now is the reading of the
\* clock that the timestamp field's default factory takes.
MakeSource(url, doc, idx, now) ==
    LET trust_info == get_domain_trust_info(url)
    IN  [ url             |-> url,
          paragraph_id    |-> <<idx, ContentHash(doc.v, idx)>>,
          content         |-> SectionText(doc.v, idx),
          relevance_score |-> SectionScore(doc.v, idx),
          timestamp       |-> now,
          trust_flag      |-> trust_info.trust_flag,
          trust_score     |-> trust_info.trust_score,
          is_trusted      |-> trust_info.is_trusted,
          trust_category  |-> trust_info.category,
          domain          |-> trust_info.domain ]

\* extract_content_with_sections(url, keywords) when the fetch returns doc;
\* enumerate() numbers the headings from 0.
extract_content_with_sections(url, doc, now) ==
    [i \in 1..doc.n |-> MakeSource(url, doc, i - 1, now)]

(***************************************************************************)
(* Selection (ResearchAgent.process, lines 427-507)                        *)
(***************************************************************************)
SourceKey(src) == <<src.url, src.paragraph_id>>

RECURSIVE DedupFrom(_, _, _, _)
DedupFrom(srcs, i, seen_paragraphs, unique) ==
    IF i > Len(srcs) THEN unique
    ELSE IF SourceKey(srcs[i]) \notin seen_paragraphs
         THEN DedupFrom(srcs, i + 1, seen_paragraphs \cup {SourceKey(srcs[i])},
                        Append(unique, srcs[i]))
         ELSE DedupFrom(srcs, i + 1, seen_paragraphs, unique)

\* Mutant of Deduplicate: the last occurrence of a pair survives.
DeduplicateKeepLast(srcs) ==
    LET keep == {i \in 1..Len(srcs) :
                   \A j \in (i + 1)..Len(srcs) : SourceKey(srcs[j]) # SourceKey(srcs[i])}
        RECURSIVE Pick(_)
        Pick(i) == IF i > Len(srcs) THEN <<>>
                   ELSE IF i \in keep THEN <<srcs[i]>> \o Pick(i + 1) ELSE Pick(i + 1)
    IN  Pick(1)

\* Lines 429-435: keep the first occurrence of every (url, paragraph_id).
Deduplicate(srcs) == DedupFrom(srcs, 1, {}, <<>>)

\* [src for src in srcs if pred(src)]
RECURSIVE FilterFrom(_, _, _)
FilterFrom(srcs, i, want_trusted) ==
    IF i > Len(srcs) THEN <<>>
    ELSE IF srcs[i].is_trusted = want_trusted
         THEN <<srcs[i]>> \o FilterFrom(srcs, i + 1, want_trusted)
         ELSE FilterFrom(srcs, i + 1, want_trusted)

TrustedOf(srcs)   == FilterFrom(srcs, 1, TRUE)
UntrustedOf(srcs) == FilterFrom(srcs, 1, FALSE)

\* Mutant of InsertDesc: src goes in front of the elements of equal score
\* (a sort that is not stable).
InsertDescTiesFirst(sorted, src) ==
    LET k == Cardinality({j \in 1..Len(sorted) :
                            sorted[j].relevance_score > src.relevance_score})
    IN  SubSeq(sorted, 1, k) \o <<src>> \o SubSeq(sorted, k + 1, Len(sorted))

\* Position at which src goes into a list already sorted by descending
\* score: behind every element whose score is not smaller (stable).
InsertDesc(sorted, src) ==
    LET k == Cardinality({j \in 1..Len(sorted) :
                            sorted[j].relevance_score >= src.relevance_score})
    IN  SubSeq(sorted, 1, k) \o <<src>> \o SubSeq(sorted, k + 1, Len(sorted))

RECURSIVE SortFrom(_, _, _)
SortFrom(srcs, i, sorted) ==
    IF i > Len(srcs) THEN sorted
    ELSE SortFrom(srcs, i + 1, InsertDesc(sorted, srcs[i]))

\* list.sort(key=lambda x: x.relevance_score, reverse=True): stable.
SortByRelevance(srcs) == SortFrom(srcs, 1, <<>>)

\* src.domain or urlparse(src.url).netloc.lower()
DomainKey(src) == IF src.domain # <<>> THEN src.domain ELSE netloc_lower(src.url)

\* Mutant of TrustedLimit: the trusted pass keeps the final cap.
TrustedLimitNotDoubled == Config.MAX_SOURCES_PER_DOMAIN_FINAL

\* Lines 456 and 458: the trusted pass admits below twice the final cap.
TrustedLimit == Config.MAX_SOURCES_PER_DOMAIN_FINAL * 2

\* Mutant of TrustedQuotaReached: the pass stops on the quota being hit
\* exactly.
TrustedQuotaReachedExactly(final) == 2 * Len(final) = Config.MAX_TOTAL_SOURCES

\* Line 463: len(final_sources) >= MAX_TOTAL_SOURCES * 0.5
TrustedQuotaReached(final) == 2 * Len(final) >= Config.MAX_TOTAL_SOURCES

\* Lines 454-464.  The state of the passes is [final, counts].
RECURSIVE FirstPassFrom(_, _, _)
FirstPassFrom(trusted, i, st) ==
    IF i > Len(trusted) THEN st
    ELSE LET src    == trusted[i]
             domain == DomainKey(src)
         IN  IF Get(st.counts, domain) < TrustedLimit
             THEN LET st2 == [final  |-> Append(st.final, src),
                              counts |-> Incr(st.counts, domain)]
                  IN  IF TrustedQuotaReached(st2.final) THEN st2
                      ELSE FirstPassFrom(trusted, i + 1, st2)
             ELSE FirstPassFrom(trusted, i + 1, st)

FirstPass(unique) ==
    FirstPassFrom(SortByRelevance(TrustedOf(unique)), 1,
                  [final |-> <<>>, counts |-> EmptyDict])

\* Mutant of UntrustedLimit: the trusted limit applied to untrusted domains.
UntrustedLimitDoubled == Config.MAX_SOURCES_PER_DOMAIN_FINAL * 2

\* Line 473: the untrusted pass admits below the final cap.
UntrustedLimit == Config.MAX_SOURCES_PER_DOMAIN_FINAL

\* Lines 467-476.
RECURSIVE SecondPassFrom(_, _, _, _)
SecondPassFrom(untrusted, i, st, remaining_slots) ==
    IF i > Len(untrusted) \/ remaining_slots <= 0 THEN st
    ELSE LET src    == untrusted[i]
             domain == DomainKey(src)
         IN  IF Get(st.counts, domain) < UntrustedLimit
             THEN SecondPassFrom(untrusted, i + 1,
                                 [final  |-> Append(st.final, src),
                                  counts |-> Incr(st.counts, domain)],
                                 remaining_slots - 1)
             ELSE SecondPassFrom(untrusted, i + 1, st, remaining_slots)

SecondPass(unique, st) ==
    SecondPassFrom(SortByRelevance(UntrustedOf(unique)), 1, st,
                   Config.MAX_TOTAL_SOURCES - Len(st.final))

\* src in final_sources (dataclass equality)
InList(src, list) == \E j \in 1..Len(list) : list[j] = src

\* Mutant of RemainingFrom: the floor pass draws from the whole pool, the
\* fragments already admitted included.
RemainingFromAll(unique, i, final) == SubSeq(unique, i, Len(unique))

\* Lines 482-485: the fragments of unique_sources not in final_sources.
RECURSIVE RemainingFrom(_, _, _)
RemainingFrom(unique, i, final) ==
    IF i > Len(unique) THEN <<>>
    ELSE IF ~InList(unique[i], final)
         THEN <<unique[i]>> \o RemainingFrom(unique, i + 1, final)
         ELSE RemainingFrom(unique, i + 1, final)

\* Mutant of FloorLimit: the floor pass admits below three times the cap.
FloorLimitTripled == Config.MAX_SOURCES_PER_DOMAIN_FINAL * 3

\* Mutant of FloorLimit: the floor pass keeps the normal cap.
FloorLimitNotRelaxed == Config.MAX_SOURCES_PER_DOMAIN_FINAL

\* Line 496: the floor pass admits below twice the final cap.
FloorLimit == Config.MAX_SOURCES_PER_DOMAIN_FINAL * 2

\* Lines 491-498.
RECURSIVE ThirdPassFrom(_, _, _)
ThirdPassFrom(remaining, i, st) ==
    IF i > Len(remaining) \/ Len(st.final) >= MIN_SOURCES THEN st
    ELSE LET src    == remaining[i]
             domain == DomainKey(src)
         IN  IF Get(st.counts, domain) < FloorLimit
             THEN ThirdPassFrom(remaining, i + 1,
                                [final  |-> Append(st.final, src),
                                 counts |-> Incr(st.counts, domain)])
             ELSE ThirdPassFrom(remaining, i + 1, st)

\* Lines 479-498.
ThirdPass(unique, st) ==
    IF Len(st.final) < MIN_SOURCES
    THEN ThirdPassFrom(SortByRelevance(RemainingFrom(unique, 1, st.final)), 1, st)
    ELSE st

(***************************************************************************)
(* The selection as a function of the pool: specification SpecSelect draws *)
(* a configuration and a pool (the sections of up to MaxPages fetched      *)
(* pages, in fetch order) and applies lines 427-507 to it.                 *)
(***************************************************************************)
SelUrls ==
    { [netloc |-> <<"www", "mit", "edu">>,     path |-> "/a"],
      [netloc |-> <<"arxiv", "org">>,          path |-> "/b"],
      [netloc |-> <<"blog", "example", "com">>, path |-> "/c"],
      [netloc |-> <<"forum", "net">>,          path |-> "/d"] }

PageChoices == [url : SelUrls, v : Versions, n : SectionCounts]

RECURSIVE PoolOf(_, _)
PoolOf(pages, i) ==
    IF i > Len(pages) THEN <<>>
    ELSE extract_content_with_sections(pages[i].url,
                                       [v |-> pages[i].v, n |-> pages[i].n], i)
         \o PoolOf(pages, i + 1)

InitSelect ==
    /\ Config \in Configs
    /\ phase = "pool"
    /\ \E k \in 0..MaxPages : \E pages \in [1..k -> PageChoices] :
           all_sources = PoolOf(pages, 1)
    /\ unique_sources = <<>>
    /\ pass1_sources = <<>>
    /\ pass2_sources = <<>>
    /\ final_sources = <<>>
    /\ pc = "idle"
    /\ max_iterations = 0
    /\ iteration = 0
    /\ query_terms = <<>>
    /\ search_terms = <<>>
    /\ search_history = {}
    /\ tasks = <<>>
    /\ seen_urls = {}
    /\ iterative_sources = <<>>
    /\ returned = <<>>
    /\ follow_ups = <<>>
    /\ search_calls = 0
    /\ fetch_calls = 0
    /\ extract_count = EmptyDict
    /\ round1 = <<>>
    /\ expansion = NoExpansion
    /\ answers = <<>>
    /\ PureIdle

\* Lines 427-507 of process(), no suspension point inside, applied to pool.
SelectionOf(pool) ==
    LET unique == Deduplicate(pool)
        st1    == FirstPass(unique)
        st2    == SecondPass(unique, st1)
        st3    == ThirdPass(unique, st2)
    IN  [unique |-> unique, pass1 |-> st1.final, pass2 |-> st2.final,
         final |-> st3.final]

Select ==
    /\ phase = "pool"
    /\ LET sel == SelectionOf(all_sources)
       IN  /\ unique_sources' = sel.unique
           /\ pass1_sources' = sel.pass1
           /\ pass2_sources' = sel.pass2
           /\ final_sources' = sel.final
    /\ phase' = "selected"
    /\ UNCHANGED <<pureVars, Config, all_sources, loopVars, taskVars>>

NextSelect == Select

SpecSelect == InitSelect /\ [][NextSelect]_vars

(***************************************************************************)
(* Final selection of the iterative research                               *)
(* (ResearchAgent._final_iterative_selection, lines 700-747)               *)
(***************************************************************************)
\* Line 720.
MAX_ITERATIVE_SOURCES == Config.MAX_TOTAL_SOURCES

\* Line 721.
MAX_PER_DOMAIN_ITERATIVE == Config.MAX_SOURCES_PER_DOMAIN_FINAL * 3

\* Mutant of IterativeTrustedQuotaReached: the trusted pass may fill the
\* whole budget.
IterativeTrustedQuotaFull(final) == Len(final) >= MAX_ITERATIVE_SOURCES

\* Line 725: len(final_sources) >= MAX_ITERATIVE_SOURCES * 0.6
IterativeTrustedQuotaReached(final) == 10 * Len(final) >= 6 * MAX_ITERATIVE_SOURCES

\* Lines 724-732.
RECURSIVE IterTrustedFrom(_, _, _)
IterTrustedFrom(trusted, i, st) ==
    IF i > Len(trusted) \/ IterativeTrustedQuotaReached(st.final) THEN st
    ELSE LET src    == trusted[i]
             domain == DomainKey(src)
         IN  IF Get(st.counts, domain) < MAX_PER_DOMAIN_ITERATIVE
             THEN IterTrustedFrom(trusted, i + 1,
                                  [final  |-> Append(st.final, src),
                                   counts |-> Incr(st.counts, domain)])
             ELSE IterTrustedFrom(trusted, i + 1, st)

\* Lines 735-742.
RECURSIVE IterUntrustedFrom(_, _, _)
IterUntrustedFrom(untrusted, i, st) ==
    IF i > Len(untrusted) \/ Len(st.final) >= MAX_ITERATIVE_SOURCES THEN st
    ELSE LET src    == untrusted[i]
             domain == DomainKey(src)
         IN  IF Get(st.counts, domain) < MAX_PER_DOMAIN_ITERATIVE
             THEN IterUntrustedFrom(untrusted, i + 1,
                                    [final  |-> Append(st.final, src),
                                     counts |-> Incr(st.counts, domain)])
             ELSE IterUntrustedFrom(untrusted, i + 1, st)

final_iterative_selection(sources) ==
    IF sources = <<>> THEN <<>>
    ELSE LET st1 == IterTrustedFrom(SortByRelevance(TrustedOf(sources)), 1,
                                    [final |-> <<>>, counts |-> EmptyDict])
             st2 == IterUntrustedFrom(SortByRelevance(UntrustedOf(sources)), 1, st1)
         IN  st2.final

(***************************************************************************)
(* The research session: process_iterative (lines 509-639) driving         *)
(* process (lines 306-507) once per round.  The event loop runs one        *)
(* coroutine at a time from one await to the next, so an action is the     *)
(* code between two suspension points.                                     *)
(***************************************************************************)
\* str.lower() on a search term.
TermLower(term) == IF term = "AI" THEN "ai" ELSE term

\* query_analysis['search_terms'] as the query analyzer hands it over.
InitialTerms == { <<"ai", "ml">> }

\* What the text generation answers to the expansion prompt: ok = FALSE is a
\* failed call or a text json.loads rejects or that is no list.
ExpansionResponses ==
    { [ok |-> FALSE, terms |-> <<>>],
      [ok |-> TRUE,  terms |-> <<"AI">>] }

\* What it answers to the follow-up prompt, by what lines 673-685 make of it:
\*   "raise"    chain.ainvoke raises (the call failed);
\*   "empty"    the text is empty, json.loads raises;
\*   "garbage"  the text is no JSON, json.loads raises;
\*   "object"   the text is JSON but no list, here {"topics": ["rag"]};
\*   "list"     the text is a JSON list of strings.
\* terms are the strings the answer carries.
FollowUpResponses ==
    { [kind |-> "raise",   terms |-> <<>>],
      [kind |-> "empty",   terms |-> <<>>],
      [kind |-> "garbage", terms |-> <<"rag">>],
      [kind |-> "object",  terms |-> <<"rag">>],
      [kind |-> "list",    terms |-> <<>>],
      [kind |-> "list",    terms |-> <<"AI", "rag">>] }

\* terms[:n]
Take(list, n) == SubSeq(list, 1, IF Len(list) < n THEN Len(list) ELSE n)

RECURSIVE NotIn(_, _, _)
NotIn(terms, i, lowered) ==
    IF i > Len(terms) THEN <<>>
    ELSE IF TermLower(terms[i]) \notin lowered
         THEN <<terms[i]>> \o NotIn(terms, i + 1, lowered)
         ELSE NotIn(terms, i + 1, lowered)

\* Mutant of ExpandedTerms: the answer is not compared with the terms of the
\* round.
ExpandedTermsUnfiltered(terms, resp) ==
    IF resp.ok THEN Take(resp.terms, 4) ELSE <<>>

\* Mutant of ExpandedTerms: the limit is the 6 of the prompt (line 318).
ExpandedTermsSix(terms, resp) ==
    IF resp.ok
    THEN Take(NotIn(resp.terms, 1, {TermLower(terms[i]) : i \in 1..Len(terms)}), 6)
    ELSE <<>>

\* Lines 337-341: the terms search_terms.extend() appends.
ExpandedTerms(terms, resp) ==
    IF resp.ok
    THEN Take(NotIn(resp.terms, 1, {TermLower(terms[i]) : i \in 1..Len(terms)}), 4)
    ELSE <<>>

\* Mutant of FollowUpTerms: whatever strings the answer carries are taken
\* for follow-up terms, list or not.
FollowUpTermsLenient(history, resp) ==
    Take(NotIn(resp.terms, 1, {TermLower(t) : t \in history}), 5)

\* Lines 670-698 of _extract_follow_up_topics: only a parsed list yields
\* terms; an exception (line 695) or a value that is no list ends in the
\* return [] of line 698.
FollowUpTerms(history, resp) ==
    IF resp.kind = "list"
    THEN Take(NotIn(resp.terms, 1, {TermLower(t) : t \in history}), 5)
    ELSE <<>>

\* The pages the search provider can name.
UrlMitWww == [netloc |-> <<"www", "mit", "edu">>, path |-> "/a"]
UrlMit    == [netloc |-> <<"mit", "edu">>, path |-> "/b"]
UrlBlog   == [netloc |-> <<"blog", "example", "com">>, path |-> "/c"]

\* What search_web returns for a term (at most MAX_RESULTS_PER_SEARCH hits,
\* each standing for its href); the empty list is also what it returns when
\* the provider fails twice.
SearchResponses ==
    { <<>>, <<UrlBlog, UrlMitWww>>, <<UrlMit>> }

\* What a fetch returns: n = 0 is a failed fetch or a page without content.
FetchResponses == { [v |-> 1, n |-> 0], [v |-> 1, n |-> 8] }

RECURSIVE HitsWhere(_, _, _)
HitsWhere(results, i, want_trusted) ==
    IF i > Len(results) THEN <<>>
    ELSE IF is_trusted_domain(results[i]) = want_trusted
         THEN <<results[i]>> \o HitsWhere(results, i + 1, want_trusted)
         ELSE HitsWhere(results, i + 1, want_trusted)

\* Mutant of Prioritized: the hits are processed in the provider's order.
PrioritizedAsReturned(results) == results

\* Lines 360-375: trusted_results + untrusted_results.
Prioritized(results) == HitsWhere(results, 1, TRUE) \o HitsWhere(results, 1, FALSE)

\* Mutant of MaxPerDomain: a trusted domain gets three times the cap.
MaxPerDomainTripled(url) ==
    IF is_trusted_domain(url)
    THEN Config.MAX_SOURCES_PER_DOMAIN_PER_TERM * 3
    ELSE Config.MAX_SOURCES_PER_DOMAIN_PER_TERM

\* Line 391.
MaxPerDomain(url) ==
    IF is_trusted_domain(url)
    THEN Config.MAX_SOURCES_PER_DOMAIN_PER_TERM * 2
    ELSE Config.MAX_SOURCES_PER_DOMAIN_PER_TERM

\* Mutant of AlreadySeen: the shared set is never consulted.
AlreadySeenNever(url, seen) == FALSE

\* Line 380: url in seen_urls
AlreadySeen(url, seen) == url \in seen

\* Mutant of NextAccepted: the domain counts are not consulted.
RECURSIVE NextAcceptedUncapped(_, _, _, _)
NextAcceptedUncapped(hits, k, seen, counts) ==
    IF k > Len(hits) THEN 0
    ELSE IF AlreadySeen(hits[k], seen)
         THEN NextAcceptedUncapped(hits, k + 1, seen, counts)
         ELSE k

\* Lines 378-396: index of the first hit from position k on that is neither
\* seen nor over its domain cap; 0 when the loop runs out.
RECURSIVE NextAccepted(_, _, _, _)
NextAccepted(hits, k, seen, counts) ==
    IF k > Len(hits) THEN 0
    ELSE IF \/ AlreadySeen(hits[k], seen)
            \/ Get(counts, netloc_lower(hits[k])) >= MaxPerDomain(hits[k])
         THEN NextAccepted(hits, k + 1, seen, counts)
         ELSE k

Completed(task) == task.status \in {"done", "failed"}

\* The locals of one search_and_extract coroutine; accepted is history: the
\* URLs the coroutine handed to the extractor, in the order it did.
NewTask(term) ==
    [ term |-> term, status |-> "searching", results |-> <<>>, hits |-> <<>>, i |-> 0,
      local_sources |-> <<>>, domain_counts |-> EmptyDict, result |-> <<>>,
      accepted |-> <<>> ]

\* Lines 378-410 from hit k of task t on: claim the next acceptable URL and
\* hand it to the extractor (lines 398-402), or return local_sources.
Advance(t, task, k) ==
    LET j == NextAccepted(task.hits, k, seen_urls, task.domain_counts)
    IN  IF j = 0
        THEN /\ tasks' = [tasks EXCEPT ![t] =
                            [task EXCEPT !.status = "done", !.i = 0,
                                         !.result = task.local_sources]]
             /\ UNCHANGED <<seen_urls, fetch_calls, extract_count>>
        ELSE LET url == task.hits[j]
             IN  /\ seen_urls' = seen_urls \cup {url}
                 /\ tasks' = [tasks EXCEPT ![t] =
                                [task EXCEPT !.status = "extracting", !.i = j,
                                             !.domain_counts =
                                                 Incr(task.domain_counts, netloc_lower(url)),
                                             !.accepted = Append(@, url)]]
                 /\ fetch_calls' = fetch_calls + 1
                 /\ extract_count' = Incr(extract_count, url)

Init ==
    /\ Config = ShippedConfig
    /\ phase = "session"
    /\ all_sources = <<>>
    /\ unique_sources = <<>>
    /\ pass1_sources = <<>>
    /\ pass2_sources = <<>>
    /\ final_sources = <<>>
    /\ pc = "expand"
    /\ max_iterations \in 1..MaxRounds
    /\ iteration = 1
    /\ query_terms \in InitialTerms
    /\ search_terms = query_terms
    /\ search_history = {}
    /\ tasks = <<>>
    /\ seen_urls = {}
    /\ iterative_sources = <<>>
    /\ returned = <<>>
    /\ follow_ups = <<>>
    /\ search_calls = 0
    /\ fetch_calls = 0
    /\ extract_count = EmptyDict
    /\ round1 = <<>>
    /\ expansion = NoExpansion
    /\ answers = <<>>
    /\ PureIdle

\* process() lines 316-418: the expansion call returns, the term list is
\* extended in place, and gather() starts one coroutine per term, each of
\* which runs up to its search call.
ExpandReturn ==
    /\ pc = "expand"
    /\ \E resp \in ExpansionResponses :
           LET terms == search_terms \o ExpandedTerms(search_terms, resp)
           IN  /\ search_terms' = terms
               /\ query_terms' = IF iteration = 1 THEN terms ELSE query_terms
               /\ expansion' = resp
               /\ tasks' = [t \in 1..Len(terms) |-> NewTask(terms[t])]
               /\ search_calls' = search_calls + Len(terms)
    /\ seen_urls' = {}
    /\ extract_count' = EmptyDict
    /\ all_sources' = <<>>
    /\ unique_sources' = <<>>
    /\ pass1_sources' = <<>>
    /\ pass2_sources' = <<>>
    /\ final_sources' = <<>>
    /\ pc' = "fanout"
    /\ UNCHANGED <<pureVars, Config, phase, max_iterations, iteration, search_history,
                   iterative_sources, returned, follow_ups, fetch_calls, round1,
                   answers>>

\* search_and_extract lines 353-402: the search returns and the loop runs up
\* to the first extraction.
SearchReturn(t) ==
    /\ pc = "fanout"
    /\ tasks[t].status = "searching"
    /\ \E results \in SearchResponses :
           Advance(t, [tasks[t] EXCEPT !.results = results,
                                       !.hits = Prioritized(results)], 1)
    /\ UNCHANGED <<pureVars, Config, phase, selectVars, loopVars, search_calls>>

\* Mutant of ExtractReturn: the loop goes on with the next hit without
\* sleeping.
ExtractReturnNoDelay(t) ==
    /\ pc = "fanout"
    /\ tasks[t].status = "extracting"
    /\ \E doc \in FetchResponses :
           Advance(t, [tasks[t] EXCEPT !.local_sources =
                           @ \o extract_content_with_sections(
                                    tasks[t].hits[tasks[t].i], doc, iteration)],
                   tasks[t].i + 1)
    /\ UNCHANGED <<pureVars, Config, phase, selectVars, loopVars, search_calls>>

\* Lines 402-408: the extraction returns; the coroutine sleeps.  The clock
\* the timestamps are read from ticks once per round.
ExtractReturn(t) ==
    /\ pc = "fanout"
    /\ tasks[t].status = "extracting"
    /\ \E doc \in FetchResponses :
           tasks' = [tasks EXCEPT ![t] =
               [@ EXCEPT !.status = "sleeping",
                         !.local_sources = @ \o extract_content_with_sections(
                                                   tasks[t].hits[tasks[t].i], doc, iteration)]]
    /\ UNCHANGED <<pureVars, Config, phase, selectVars, loopVars, seen_urls, search_calls,
                   fetch_calls, extract_count>>

\* Lines 408, 378-402: the sleep ends and the loop goes on with the next hit.
SleepReturn(t) ==
    /\ pc = "fanout"
    /\ tasks[t].status = "sleeping"
    /\ Advance(t, tasks[t], tasks[t].i + 1)
    /\ UNCHANGED <<pureVars, Config, phase, selectVars, loopVars, search_calls>>

\* Mutant of TaskFails: a failing coroutine gives back the URLs it claimed.
TaskFailsReleasing(t) ==
    /\ pc = "fanout"
    /\ tasks[t].status \in {"searching", "extracting"}
    /\ tasks' = [tasks EXCEPT ![t] = [@ EXCEPT !.status = "failed", !.result = <<>>]]
    /\ seen_urls' = seen_urls \ {tasks[t].accepted[a] : a \in 1..Len(tasks[t].accepted)}
    /\ UNCHANGED <<pureVars, Config, phase, selectVars, loopVars, search_calls,
                   fetch_calls, extract_count>>

\* Lines 412-414: the search or the processing of its hits raises; the
\* coroutine returns [].
TaskFails(t) ==
    /\ pc = "fanout"
    /\ tasks[t].status \in {"searching", "extracting"}
    /\ tasks' = [tasks EXCEPT ![t] = [@ EXCEPT !.status = "failed", !.result = <<>>]]
    /\ UNCHANGED <<pureVars, Config, phase, selectVars, loopVars, seen_urls, search_calls,
                   fetch_calls, extract_count>>

\* Mutant of GatherReady: the wait ends with the first coroutine to complete.
GatherReadyFirstCompleted ==
    tasks = <<>> \/ \E t \in 1..Len(tasks) : Completed(tasks[t])

\* Line 418: gather() resumes process() when every coroutine has completed.
GatherReady == \A t \in 1..Len(tasks) : Completed(tasks[t])

\* Mutant of Flatten: the first failure is raised out of the round and the
\* results of the round are lost.
RECURSIVE FlattenRaising(_, _)
FlattenRaising(ts, t) ==
    IF \E u \in 1..Len(ts) : ts[u].status = "failed" THEN <<>>
    ELSE IF t > Len(ts) THEN <<>>
    ELSE ts[t].local_sources \o FlattenRaising(ts, t + 1)

\* Lines 421-425: the results of the coroutines, in term order.  A coroutine
\* that is still running has no result yet.
RECURSIVE Flatten(_, _)
Flatten(ts, t) ==
    IF t > Len(ts) THEN <<>>
    ELSE ts[t].result \o Flatten(ts, t + 1)

\* Lines 611-617: the sources of this round whose url + paragraph_id is new.
RECURSIVE NewSources(_, _, _)
NewSources(iteration_sources, i, existing_urls) ==
    IF i > Len(iteration_sources) THEN <<>>
    ELSE IF SourceKey(iteration_sources[i]) \notin existing_urls
         THEN <<iteration_sources[i]>> \o
              NewSources(iteration_sources, i + 1,
                         existing_urls \cup {SourceKey(iteration_sources[i])})
         ELSE NewSources(iteration_sources, i + 1, existing_urls)

\* Mutant of Merged: the round's sources are added without the key test.
MergedNoDedup(sources, round_sources) == sources \o round_sources

\* Lines 545 and 609-619.
Merged(sources, round_sources) ==
    sources \o NewSources(round_sources, 1,
                          {SourceKey(sources[i]) : i \in 1..Len(sources)})

\* Mutant of LoopGoesOn: the round limit is not consulted.
LoopGoesOnUnbounded(round) == TRUE

\* Line 564: for iteration in range(2, max_iterations + 1)
LoopGoesOn(round) == round <= max_iterations

\* Mutant of NoNewDirections: an empty answer does not end the loop.
NoNewDirectionsIgnored(new_search_terms) == FALSE

\* Line 578: if not new_search_terms
NoNewDirections(new_search_terms) == new_search_terms = <<>>

\* Line 639: the final selection and the return.
Finish(sources) ==
    /\ returned' = final_iterative_selection(sources)
    /\ pc' = "done"

\* process() lines 418-507 and process_iterative() up to its next suspension:
\* gather() returns, the round's pool is selected from, the result is merged
\* into all_sources, and the loop either asks for follow-up topics, or ends.
GatherAndSelect ==
    /\ pc = "fanout"
    /\ GatherReady
    /\ LET pool   == Flatten(tasks, 1)
           sel    == SelectionOf(pool)
           merged == IF iteration = 1 THEN sel.final
                     ELSE Merged(iterative_sources, sel.final)
       IN  /\ all_sources' = pool
           /\ unique_sources' = sel.unique
           /\ pass1_sources' = sel.pass1
           /\ pass2_sources' = sel.pass2
           /\ final_sources' = sel.final
           /\ iterative_sources' = merged
           /\ round1' = IF iteration = 1
                        THEN [sources |-> sel.final, search_calls |-> search_calls,
                              fetch_calls |-> fetch_calls]
                        ELSE round1
           /\ IF ~LoopGoesOn(iteration + 1)
              THEN Finish(merged) /\ UNCHANGED follow_ups
              ELSE IF merged = <<>>
                   \* line 643: no sources, no call to the text generation
                   THEN /\ follow_ups' = Append(follow_ups, <<>>)
                        /\ IF NoNewDirections(<<>>)
                           THEN Finish(merged)
                           ELSE pc' = "expand" /\ returned' = returned
                   ELSE /\ pc' = "followup"
                        /\ UNCHANGED <<follow_ups, returned>>
    /\ search_history' = search_history \cup {search_terms[i] : i \in 1..Len(search_terms)}
    /\ UNCHANGED <<pureVars, Config, phase, max_iterations, iteration, query_terms,
                   search_terms, taskVars, answers, expansion>>

\* _extract_follow_up_topics lines 673-698 and process_iterative lines
\* 576-607: the answer arrives; no new term ends the loop, otherwise the
\* next round starts with the new terms.
FollowUpReturn ==
    /\ pc = "followup"
    /\ \E resp \in FollowUpResponses :
           LET new_search_terms == FollowUpTerms(search_history, resp)
           IN  /\ follow_ups' = Append(follow_ups, new_search_terms)
               /\ answers' = Append(answers, resp)
               /\ IF NoNewDirections(new_search_terms)
                  THEN /\ Finish(iterative_sources)
                       /\ UNCHANGED <<iteration, search_terms>>
                  ELSE /\ iteration' = iteration + 1
                       /\ search_terms' = new_search_terms
                       /\ pc' = "expand"
                       /\ returned' = returned
    /\ UNCHANGED <<pureVars, Config, phase, selectVars, max_iterations, query_terms,
                   search_history, iterative_sources, round1, taskVars, expansion>>

Next ==
    \/ ExpandReturn
    \/ \E t \in 1..Len(tasks) : SearchReturn(t)
    \/ \E t \in 1..Len(tasks) : ExtractReturn(t)
    \/ \E t \in 1..Len(tasks) : SleepReturn(t)
    \/ \E t \in 1..Len(tasks) : TaskFails(t)
    \/ GatherAndSelect
    \/ FollowUpReturn

Spec == Init /\ [][Next]_vars

(***************************************************************************)
(* One round of process() under per-term domain caps that bind:            *)
(* specification SpecTerm starts where gather() has started the coroutines *)
(* of two terms (line 417), with a per-term cap of 1 and searches that     *)
(* return up to 4 hits, several of them pages of one host.                 *)
(***************************************************************************)
UrlMitD  == [netloc |-> <<"mit", "edu">>, path |-> "/d"]
UrlMitE  == [netloc |-> <<"mit", "edu">>, path |-> "/e"]
UrlBlogF == [netloc |-> <<"blog", "example", "com">>, path |-> "/f"]

TermConfig ==
    [ShippedConfig EXCEPT !.MAX_RESULTS_PER_SEARCH = 4,
                          !.MAX_SOURCES_PER_DOMAIN_PER_TERM = 1]

\* What search_web returns for a term under TermConfig.
TermSearchResponses ==
    { <<UrlBlog, UrlMit, UrlMitD, UrlMitE>>,
      <<UrlBlog, UrlMitD, UrlBlogF>> }

InitTerm ==
    /\ Config = TermConfig
    /\ phase = "term"
    /\ all_sources = <<>>
    /\ unique_sources = <<>>
    /\ pass1_sources = <<>>
    /\ pass2_sources = <<>>
    /\ final_sources = <<>>
    /\ pc = "fanout"
    /\ max_iterations = 1
    /\ iteration = 1
    /\ query_terms \in InitialTerms
    /\ search_terms = query_terms
    /\ search_history = {}
    /\ tasks = [t \in 1..Len(search_terms) |-> NewTask(search_terms[t])]
    /\ seen_urls = {}
    /\ iterative_sources = <<>>
    /\ returned = <<>>
    /\ follow_ups = <<>>
    /\ search_calls = Len(search_terms)
    /\ fetch_calls = 0
    /\ extract_count = EmptyDict
    /\ round1 = <<>>
    /\ expansion = NoExpansion
    /\ answers = <<>>
    /\ PureIdle

\* search_and_extract lines 353-402 under TermConfig.
TermSearchReturn(t) ==
    /\ pc = "fanout"
    /\ tasks[t].status = "searching"
    /\ \E results \in TermSearchResponses :
           Advance(t, [tasks[t] EXCEPT !.results = results,
                                       !.hits = Prioritized(results)], 1)
    /\ UNCHANGED <<pureVars, Config, phase, selectVars, loopVars, search_calls>>

NextTerm ==
    \/ \E t \in 1..Len(tasks) : TermSearchReturn(t)
    \/ \E t \in 1..Len(tasks) : ExtractReturn(t)
    \/ \E t \in 1..Len(tasks) : SleepReturn(t)
    \/ \E t \in 1..Len(tasks) : TaskFails(t)
    \/ GatherAndSelect

SpecTerm == InitTerm /\ [][NextTerm]_vars

(***************************************************************************)
(* The order of the list the selection returns: specification SpecOrder    *)
(* applies lines 427-507 to pools of pages of one trusted and two          *)
(* untrusted domains, with and without fragments of equal relevance; two   *)
(* pages of 8 sections make a pool of more than MIN_SOURCES fragments.     *)
(***************************************************************************)
OrderPages ==
    [ url : { [netloc |-> <<"www", "mit", "edu">>,      path |-> "/a"],
              [netloc |-> <<"blog", "example", "com">>, path |-> "/c"],
              [netloc |-> <<"forum", "net">>,           path |-> "/d"] },
      v : Versions,
      n : {1, 8} ]

InitOrder ==
    /\ Config \in Configs
    /\ phase = "pool"
    /\ \E k \in 0..MaxPages : \E pages \in [1..k -> OrderPages] :
           all_sources = PoolOf(pages, 1)
    /\ unique_sources = <<>>
    /\ pass1_sources = <<>>
    /\ pass2_sources = <<>>
    /\ final_sources = <<>>
    /\ pc = "idle"
    /\ max_iterations = 0
    /\ iteration = 0
    /\ query_terms = <<>>
    /\ search_terms = <<>>
    /\ search_history = {}
    /\ tasks = <<>>
    /\ seen_urls = {}
    /\ iterative_sources = <<>>
    /\ returned = <<>>
    /\ follow_ups = <<>>
    /\ search_calls = 0
    /\ fetch_calls = 0
    /\ extract_count = EmptyDict
    /\ round1 = <<>>
    /\ expansion = NoExpansion
    /\ answers = <<>>
    /\ PureIdle

NextOrder == Select

SpecOrder == InitOrder /\ [][NextOrder]_vars

(***************************************************************************)
(* The final selection as a function of the accumulated fragments:         *)
(* specification SpecFinal draws a configuration and what the rounds of a  *)
(* session accumulated (the sections of up to MaxPages pages, no           *)
(* url + paragraph_id twice) and applies lines 700-747 to it.              *)
(***************************************************************************)
FinalPages ==
    [ url : { [netloc |-> <<"www", "mit", "edu">>,      path |-> "/a"],
              [netloc |-> <<"arxiv", "org">>,           path |-> "/b"],
              [netloc |-> <<"blog", "example", "com">>, path |-> "/c"] },
      v : Versions,
      n : {1, 6} ]

InitFinal ==
    /\ Config \in Configs
    /\ phase = "accumulated"
    /\ all_sources = <<>>
    /\ unique_sources = <<>>
    /\ pass1_sources = <<>>
    /\ pass2_sources = <<>>
    /\ final_sources = <<>>
    /\ pc = "idle"
    /\ max_iterations = 0
    /\ iteration = 0
    /\ query_terms = <<>>
    /\ search_terms = <<>>
    /\ search_history = {}
    /\ tasks = <<>>
    /\ seen_urls = {}
    /\ \E k \in 0..MaxPages : \E pages \in [1..k -> FinalPages] :
           iterative_sources = Merged(<<>>, PoolOf(pages, 1))
    /\ returned = <<>>
    /\ follow_ups = <<>>
    /\ search_calls = 0
    /\ fetch_calls = 0
    /\ extract_count = EmptyDict
    /\ round1 = <<>>
    /\ expansion = NoExpansion
    /\ answers = <<>>
    /\ PureIdle

\* Line 639: return self._final_iterative_selection(all_sources)
FinalSelect ==
    /\ phase = "accumulated"
    /\ returned' = final_iterative_selection(iterative_sources)
    /\ phase' = "allocated"
    /\ UNCHANGED <<pureVars, Config, selectVars, taskVars, pc, max_iterations,
                   iteration, query_terms, search_terms, search_history,
                   iterative_sources, follow_ups, round1, answers, expansion>>

NextFinal == FinalSelect

SpecFinal == InitFinal /\ [][NextFinal]_vars

(***************************************************************************)
(* States in which no selection and no session is under way: the calls     *)
(* looked at on their own start from them.                                 *)
(***************************************************************************)
SelectIdle ==
    /\ all_sources = <<>>
    /\ unique_sources = <<>>
    /\ pass1_sources = <<>>
    /\ pass2_sources = <<>>
    /\ final_sources = <<>>

SessionIdle ==
    /\ pc = "idle"
    /\ max_iterations = 0
    /\ iteration = 0
    /\ query_terms = <<>>
    /\ search_terms = <<>>
    /\ search_history = {}
    /\ tasks = <<>>
    /\ seen_urls = {}
    /\ iterative_sources = <<>>
    /\ returned = <<>>
    /\ follow_ups = <<>>
    /\ search_calls = 0
    /\ fetch_calls = 0
    /\ extract_count = EmptyDict
    /\ round1 = <<>>
    /\ expansion = NoExpansion
    /\ answers = <<>>

(***************************************************************************)
(* Calls of TrustedDomains.get_domain_trust_info on URL texts.  A URL text *)
(* is the sequence of its tokens: names and the delimiters ":", "//", ".", *)
(* "/", "?" and "#".  Specification SpecClassify makes two calls, each on  *)
(* a text put together from a prefix, a host and a tail.                   *)
(***************************************************************************)
\* The text in front of the host: a scheme, a scheme-relative reference, or
\* nothing (a text such as www.mit.edu/a, which urlparse reads as a path).
UrlPrefixes == { <<"https", ":", "//">>, <<"//">>, <<>> }

\* Hosts: registry members of every category, hosts only a suffix pattern
\* catches, a registry member a pattern of another category catches, hosts
\* nothing catches, spellings with www. and capitals, and a netloc with an
\* unmatched bracket.
UrlHosts ==
    { <<"mit", "edu">>, <<"www", "mit", "edu">>, <<"WWW", "MIT", "EDU">>,
      <<"ethz", "ch">>, <<"nasa", "gov">>, <<"arxiv", "org">>,
      <<"ncbi", "nlm", "nih", "gov">>, <<"bbc", "com">>, <<"github", "com">>,
      <<"wikipedia", "org">>, <<"snopes", "com">>,
      <<"cs", "ox", "ac", "uk">>, <<"city", "ca">>, <<"data", "gov", "uk">>,
      <<"blog", "example", "com">>, <<"edu">>, <<"blog", "nature", "com">>,
      <<"www", "edu", "example", "com">>, <<"[bad">> }

\* What follows the host: path, query string, fragment.
UrlTails ==
    { <<>>, <<"/", "a">>, <<"?", "q">>, <<"/", "a", "?", "q", "#", "f">> }

\* "a.b.c" from <<"a", "b", "c">>
RECURSIVE Dotted(_)
Dotted(labels) ==
    IF labels = <<>> THEN <<>>
    ELSE IF Len(labels) = 1 THEN labels
    ELSE <<Head(labels), ".">> \o Dotted(Tail(labels))

UrlText(prefix, host, tail) == prefix \o Dotted(host) \o tail

IsLabel(token) == token # "."

\* Mutant of urlparse: the netloc runs up to the first "/" only.
urlparse_to_slash(url) ==
    LET rest  == IF Len(url) >= 2 /\ url[2] = ":" THEN SubSeq(url, 3, Len(url)) ELSE url
        has   == Len(rest) >= 1 /\ rest[1] = "//"
        after == IF has THEN Tail(rest) ELSE <<>>
        stops == {k \in 1..Len(after) : after[k] = "/"}
        end   == IF stops = {} THEN Len(after)
                 ELSE (CHOOSE k \in stops : \A m \in stops : k <= m) - 1
    IN  [ netloc |-> SelectSeq(SubSeq(after, 1, end), IsLabel),
          path   |-> IF has THEN SubSeq(after, end + 1, Len(after)) ELSE rest ]

\* urllib.parse.urlparse as _extract_domain uses it (lines 234-236): the
\* scheme ends at ":", the netloc follows "//" and ends at the first "/",
\* "?" or "#"; without "//" the netloc is empty.  The netloc is handed on as
\* its labels.
urlparse(url) ==
    LET rest  == IF Len(url) >= 2 /\ url[2] = ":" THEN SubSeq(url, 3, Len(url)) ELSE url
        has   == Len(rest) >= 1 /\ rest[1] = "//"
        after == IF has THEN Tail(rest) ELSE <<>>
        stops == {k \in 1..Len(after) : after[k] \in {"/", "?", "#"}}
        end   == IF stops = {} THEN Len(after)
                 ELSE (CHOOSE k \in stops : \A m \in stops : k <= m) - 1
    IN  [ netloc |-> SelectSeq(SubSeq(after, 1, end), IsLabel),
          path   |-> IF has THEN SubSeq(after, end + 1, Len(after)) ELSE rest ]

\* urlparse raises ValueError on a netloc with an unmatched bracket.
UrlparseRaises(url) == urlparse(url).netloc = <<"[bad">>

\* Lines 233-242: what _extract_domain works on; when urlparse raises, the
\* bare except makes the domain the empty string.
ParsedOrEmpty(url) ==
    IF UrlparseRaises(url) THEN [netloc |-> <<>>, path |-> <<>>] ELSE urlparse(url)

InitClassify ==
    /\ Config = ShippedConfig
    /\ phase = "classify"
    /\ SelectIdle
    /\ SessionIdle
    /\ PureIdle

\* One call: the text is put together and classified.  prefix, host and
\* tail are kept with the call as its history.
Classify(prefix, host, tail) ==
    /\ phase = "classify"
    /\ Len(classify_calls) < 2
    /\ LET url == UrlText(prefix, host, tail)
       IN  classify_calls' = Append(classify_calls,
               [ prefix |-> prefix, host |-> host, tail |-> tail, url |-> url,
                 info |-> get_domain_trust_info(ParsedOrEmpty(url)) ])
    /\ UNCHANGED <<Config, phase, selectVars, loopVars, taskVars, extractVars,
                   scoreVars, serviceVars>>

NextClassify ==
    \E prefix \in UrlPrefixes : \E host \in UrlHosts : \E tail \in UrlTails :
        Classify(prefix, host, tail)

SpecClassify == InitClassify /\ [][NextClassify]_vars

(***************************************************************************)
(* The relevance scorer (ResearchAgent._calculate_advanced_relevance_score, *)
(* lines 52-155).  A text is the sequence of its words and "a in b" is     *)
(* read on word boundaries.  The factors are the decimal fractions of the  *)
(* code, counted exactly: the sum inside the brackets of line 152 in       *)
(* 1/ScoreUnit, the value returned in 1/FullScore.                         *)
(***************************************************************************)
ScoreUnit == 120 * 100

\* 1.0 as a returned value: the trust multiplier is a number of 200ths.
FullScore == ScoreUnit * 200

\* str.lower() on a text.
LowerText(text) == [i \in 1..Len(text) |-> TermLower(text[i])]

\* pat in text
Contains(text, pat) ==
    \E i \in 1..(Len(text) - Len(pat) + 1) : SubSeq(text, i, i + Len(pat) - 1) = pat

\* Characters of a word; x60 and x1200 are words of 60 and 1200 characters
\* that hold no keyword.
CharLen(word) ==
    CASE word = "x60" -> 60
      [] word = "x1200" -> 1200
      [] word \in {"ai", "AI"} -> 2
      [] word = "rag" -> 3
      [] word = "however" -> 7
      [] OTHER -> 5

\* len(content.strip()): the words and one blank between two of them.
RECURSIVE StrippedLen(_)
StrippedLen(text) ==
    IF text = <<>> THEN 0
    ELSE IF Len(text) = 1 THEN CharLen(text[1])
    ELSE CharLen(Head(text)) + 1 + StrippedLen(Tail(text))

Min2(a, b) == IF a <= b THEN a ELSE b

Max2(a, b) == IF a >= b THEN a ELSE b

\* Mutant of EarlyReturn: the test of line 76 is left out.
EarlyReturnNever(text, kws) == FALSE

\* Line 76: if not content or not keywords
EarlyReturn(text, kws) == text = <<>> \/ kws = <<>>

\* Line 84.
exact_matches(content_lower, kws) ==
    Cardinality({k \in 1..Len(kws) : Contains(content_lower, LowerText(kws[k]))})

\* Line 85: the parts of a keyword that are in the content and not in the
\* keyword they are parts of.
partial_matches(content_lower, kws) ==
    Cardinality(UNION { { <<k, q>> : q \in { r \in 1..Len(kws[k]) :
                                       /\ Contains(content_lower, <<LowerText(kws[k])[r]>>)
                                       /\ ~Contains(LowerText(kws[k]), <<LowerText(kws[k])[r]>>) } }
                        : k \in 1..Len(kws) })

\* Lines 88-92, in 1/ScoreUnit.
base_score(content_lower, kws) ==
    LET total_matches2 == 2 * exact_matches(content_lower, kws)
                              + partial_matches(content_lower, kws)
        first == IF kws # <<>>
                 THEN Min2(ScoreUnit, (ScoreUnit * total_matches2) \div (2 * Len(kws)))
                 ELSE 0
    IN  Min2(ScoreUnit, (first * 12) \div 10)

\* Lines 98-104: the length factor, in 20ths.
length_factor(text) ==
    LET content_length == StrippedLen(text)
    IN  IF content_length < 50 THEN 12
        ELSE IF content_length < 200 THEN 17
        ELSE IF content_length > 1000 THEN 26
        ELSE 20

\* Lines 116-122: the density factor, in 10ths.
density_factor(text, content_lower, kws) ==
    LET total_words == Len(text)
        exact       == exact_matches(content_lower, kws)
    IN  IF total_words > 0
        THEN IF 10 * exact > total_words THEN 5
             ELSE IF 20 * exact > total_words THEN 11
             ELSE 10
        ELSE 10

\* Lines 107-113, in 1/ScoreUnit.
title_section_bonus(kws, section_lower, title_lower) ==
    (ScoreUnit * 15 *
         Cardinality({k \in 1..Len(kws) : Contains(title_lower, LowerText(kws[k]))})
     + ScoreUnit * 10 *
         Cardinality({k \in 1..Len(kws) : Contains(section_lower, LowerText(kws[k]))}))
    \div 100

\* Lines 125-132, in 1/ScoreUnit.
diversity_bonus(content_lower, kws) ==
    LET unique_keywords_found ==
            Cardinality({LowerText(kws[k]) : k \in {m \in 1..Len(kws) :
                             Contains(content_lower, LowerText(kws[m]))}})
        partial_keywords_found ==
            Cardinality({LowerText(kws[k]) : k \in {m \in 1..Len(kws) :
                             \E r \in 1..Len(kws[m]) :
                                 Contains(content_lower, <<LowerText(kws[m])[r]>>)}})
        total_unique_found2 == Max2(2 * unique_keywords_found, partial_keywords_found)
    IN  IF total_unique_found2 > 2
        THEN Min2((ScoreUnit * 3) \div 10, ((total_unique_found2 - 2) * ScoreUnit) \div 20)
        ELSE 0

\* Lines 135-139, in 1/ScoreUnit.
structure_bonus(content_lower) ==
    (IF \E ind \in { <<"according", "to">>, <<"research", "shows">>, <<"study", "found">> } :
           Contains(content_lower, ind)
     THEN (ScoreUnit * 5) \div 100 ELSE 0)
    + (IF \E ind \in { <<"however">>, <<"therefore">>, <<"furthermore">> } :
             Contains(content_lower, ind)
       THEN (ScoreUnit * 3) \div 100 ELSE 0)

\* Mutant of trust_multiplier: trust lowers the score.
trust_multiplier_inverted(trust_info) ==
    IF trust_info.is_trusted THEN 200 - trust_info.trust_score ELSE 200

\* Lines 143-148: 1.0 + (trust_score / 100) * 0.5, in 200ths.
trust_multiplier(trust_info) ==
    IF trust_info.is_trusted THEN 200 + trust_info.trust_score ELSE 200

\* Mutant of Clamp: the score is returned as computed.
ClampLeftOut(final_score) == final_score

\* Line 155: min(1.0, max(0.0, final_score))
Clamp(final_score) == Min2(FullScore, Max2(0, final_score))

\* What a call does: the value it returns, the final_score of line 152
\* (raw), and whether it went beyond line 77 (evaluated) and printed the
\* line of a trusted source (printed).
calculate_advanced_relevance_score(text, kws, section, page_title, url) ==
    IF EarlyReturn(text, kws)
    THEN [value |-> 0, raw |-> 0, evaluated |-> FALSE, printed |-> FALSE]
    ELSE LET content_lower == LowerText(text)
             quality200    == length_factor(text) * density_factor(text, content_lower, kws)
             trust_info    == get_domain_trust_info(url)
             inner         == (base_score(content_lower, kws) * quality200) \div 200
                                  + title_section_bonus(kws, LowerText(section),
                                                        LowerText(page_title))
                                  + diversity_bonus(content_lower, kws)
                                  + structure_bonus(content_lower)
             final_score   == inner * trust_multiplier(trust_info)
         IN  [value |-> Clamp(final_score), raw |-> final_score, evaluated |-> TRUE,
              printed |-> trust_info.is_trusted]

\* The arguments the scorer is called with.
ScoreContents ==
    { <<>>,
      <<"AI">>,
      <<"x60", "ai", "however", "rag", "x60", "study", "found">>,
      <<"essay", "essay", "essay", "essay", "essay", "essay", "essay", "essay",
        "essay", "essay", "essay", "essay", "ai", "x1200">>,
      <<"x60", "x60", "x60", "x60", "study", "found">> }

\* A keyword is the sequence of its words.
ScoreKeywords == { <<"ai">>, <<"AI">>, <<"rag">>, <<"rag", "pipeline">> }

ScoreSections == { <<>>, <<"ai">>, <<"rag", "intro">> }

ScoreTitles == { <<"Untitled">>, <<"AI", "rag">> }

ScoreUrls ==
    { [netloc |-> <<"www", "mit", "edu">>,      path |-> "/a"],
      [netloc |-> <<"wikipedia", "org">>,       path |-> "/w"],
      [netloc |-> <<"blog", "example", "com">>, path |-> "/c"] }

InitScore ==
    /\ Config = ShippedConfig
    /\ phase = "score"
    /\ SelectIdle
    /\ SessionIdle
    /\ ExtractIdle
    /\ classify_calls = <<>>
    /\ ServiceIdle
    /\ content \in ScoreContents
    /\ \E n \in 0..MaxKeywords : keywords \in [1..n -> ScoreKeywords]
    /\ section_name \in ScoreSections
    /\ title \in ScoreTitles
    /\ scored = <<>>

\* One call of the scorer with the arguments of the state, for a url not
\* yet scored with them.
ScoreCall(url) ==
    /\ phase = "score"
    /\ url \notin DOMAIN scored
    /\ scored' = [u \in (DOMAIN scored) \cup {url} |->
                      IF u = url
                      THEN calculate_advanced_relevance_score(content, keywords,
                                                              section_name, title, url)
                      ELSE scored[u]]
    /\ UNCHANGED <<Config, phase, selectVars, loopVars, taskVars, extractVars,
                   classify_calls, serviceVars, content, keywords, section_name, title>>

NextScore == \E url \in ScoreUrls : ScoreCall(url)

SpecScore == InitScore /\ [][NextScore]_vars

(***************************************************************************)
(* Calls with arguments outside their contract: specification SpecInvalid  *)
(* applies lines 427-507 under a configuration with a negative cap and     *)
(* calls the scorer without keywords.                                      *)
(***************************************************************************)
\* Configurations with a negative final per-domain cap, a negative budget,
\* and both.
NegativeConfigs == { WithFinal(8, 0 - 1), WithFinal(0 - 1, 5), WithFinal(0 - 2, 0 - 1) }

InitNegativeCaps ==
    /\ Config \in NegativeConfigs
    /\ phase = "pool"
    /\ \E k \in 0..MaxPages : \E pages \in [1..k -> OrderPages] :
           all_sources = PoolOf(pages, 1)
    /\ unique_sources = <<>>
    /\ pass1_sources = <<>>
    /\ pass2_sources = <<>>
    /\ final_sources = <<>>
    /\ SessionIdle
    /\ PureIdle

InitNoKeywords ==
    /\ Config = ShippedConfig
    /\ phase = "score"
    /\ SelectIdle
    /\ SessionIdle
    /\ ExtractIdle
    /\ classify_calls = <<>>
    /\ ServiceIdle
    /\ content \in ScoreContents
    /\ keywords = <<>>
    /\ section_name \in ScoreSections
    /\ title \in ScoreTitles
    /\ scored = <<>>

InitInvalid == InitNegativeCaps \/ InitNoKeywords

NextInvalid ==
    \/ Select
    \/ \E url \in ScoreUrls : ScoreCall(url)

SpecInvalid == InitInvalid /\ [][NextInvalid]_vars

(***************************************************************************)
(* One call of search_web (lines 157-196): specification SpecSearch.  The  *)
(* provider, DDGS.text, returns a list of hits or raises.                  *)
(***************************************************************************)
SearchQueries == { "ai", "ml", "rag" }

\* What DDGS.text can return: up to max_results hits.
ProviderResults(max_results) ==
    UNION { [1..n -> SelUrls] : n \in 0..max_results }

\* The keyword arguments of the call at line 182.
PrimaryParams == [region |-> "default", safesearch |-> "default"]

\* The keyword arguments of the call at line 191.
FallbackParams == [region |-> "us-en", safesearch |-> "moderate"]

ProviderCall(params, ok) ==
    [ query |-> search_query, params |-> params,
      max_results |-> Config.MAX_RESULTS_PER_SEARCH, ok |-> ok ]

\* Mutant of FallbackFailed: the second exception is raised out of the call.
FallbackFailedRaises == [pc |-> "raised", result |-> <<>>]

\* Lines 194-196: the second exception is printed and [] is returned.
FallbackFailed == [pc |-> "returned", result |-> <<>>]

InitSearch ==
    /\ Config = ShippedConfig
    /\ phase = "search"
    /\ SelectIdle
    /\ SessionIdle
    /\ ExtractIdle
    /\ classify_calls = <<>>
    /\ ScoreIdle
    /\ QuotaIdle
    /\ HookIdle
    /\ SummaryIdle
    /\ search_pc = "primary"
    /\ search_query \in SearchQueries
    /\ provider_calls = <<>>
    /\ search_result = <<>>

SearchFrame ==
    UNCHANGED <<Config, phase, selectVars, loopVars, taskVars, extractVars, classify_calls,
                scoreVars, quotaVars, hookVars, summaryVars, search_query>>

\* Lines 178-184: the first call returns.
PrimaryReturns ==
    /\ search_pc = "primary"
    /\ \E hits \in ProviderResults(Config.MAX_RESULTS_PER_SEARCH) :
           search_result' = hits
    /\ provider_calls' = Append(provider_calls, ProviderCall(PrimaryParams, TRUE))
    /\ search_pc' = "returned"
    /\ SearchFrame

\* Lines 185-187: the import or the first call raises.
PrimaryRaises ==
    /\ search_pc = "primary"
    /\ provider_calls' = Append(provider_calls, ProviderCall(PrimaryParams, FALSE))
    /\ search_pc' = "fallback"
    /\ UNCHANGED search_result
    /\ SearchFrame

\* Lines 188-193: the second call returns.
FallbackReturns ==
    /\ search_pc = "fallback"
    /\ \E hits \in ProviderResults(Config.MAX_RESULTS_PER_SEARCH) :
           search_result' = hits
    /\ provider_calls' = Append(provider_calls, ProviderCall(FallbackParams, TRUE))
    /\ search_pc' = "returned"
    /\ SearchFrame

\* Lines 194-196: the second call raises.
FallbackRaises ==
    /\ search_pc = "fallback"
    /\ provider_calls' = Append(provider_calls, ProviderCall(FallbackParams, FALSE))
    /\ search_pc' = FallbackFailed.pc
    /\ search_result' = FallbackFailed.result
    /\ SearchFrame

NextSearch ==
    \/ PrimaryReturns
    \/ PrimaryRaises
    \/ FallbackReturns
    \/ FallbackRaises

SpecSearch == InitSearch /\ [][NextSearch]_vars

(***************************************************************************)
(* The search lifecycle (SearchService.execute_search, search_service.py   *)
(* lines 75-157) with the quota of quota_service.py: specification         *)
(* SpecQuota runs two calls for one user, suspended at their awaits.       *)
(***************************************************************************)
Callers == {1, 2}

\* The locals of a call at line 101-102: search_id = None (0),
\* quota_decremented = False.  refunds counts the refunds the call made and
\* error is the exception it ended with.
NewLifecycle ==
    [ pc |-> "decrement", search_id |-> 0, quota_decremented |-> FALSE,
      record |-> "none", refunds |-> 0, error |-> "none" ]

InitQuota ==
    /\ Config = ShippedConfig
    /\ phase = "quota"
    /\ SelectIdle
    /\ SessionIdle
    /\ ExtractIdle
    /\ classify_calls = <<>>
    /\ ScoreIdle
    /\ SearchIdle
    /\ HookIdle
    /\ SummaryIdle
    /\ searches_remaining \in 0..MaxQuota
    /\ lifecycles = [r \in Callers |-> NewLifecycle]

QuotaFrame ==
    UNCHANGED <<Config, phase, selectVars, loopVars, taskVars, extractVars, classify_calls,
                scoreVars, searchVars, hookVars, summaryVars>>

\* Lines 106-107 with check_and_decrement_quota (quota_service.py 111-135):
\* the database function decrements when a search is left.
QuotaDecremented(r) ==
    /\ lifecycles[r].pc = "decrement"
    /\ searches_remaining > 0
    /\ searches_remaining' = searches_remaining - 1
    /\ lifecycles' = [lifecycles EXCEPT ![r].quota_decremented = TRUE, ![r].pc = "create"]
    /\ QuotaFrame

\* quota_service.py 118-125 and search_service.py 138-140: no search is
\* left, QuotaExceededError goes through.
QuotaExceeded(r) ==
    /\ lifecycles[r].pc = "decrement"
    /\ searches_remaining = 0
    /\ lifecycles' = [lifecycles EXCEPT ![r].pc = "raised",
                                        ![r].error = "QuotaExceededError"]
    /\ UNCHANGED searches_remaining
    /\ QuotaFrame

\* quota_service.py 139-141: the call of the database function raises.
DecrementRaises(r) ==
    /\ lifecycles[r].pc = "decrement"
    /\ lifecycles' = [lifecycles EXCEPT ![r].pc = "handler", ![r].error = "Exception"]
    /\ UNCHANGED searches_remaining
    /\ QuotaFrame

\* Lines 111-112: the search record is created.
SearchCreated(r) ==
    /\ lifecycles[r].pc = "create"
    /\ lifecycles' = [lifecycles EXCEPT ![r].search_id = r, ![r].record = "pending",
                                        ![r].pc = "execute"]
    /\ UNCHANGED searches_remaining
    /\ QuotaFrame

\* Lines 119-129: the orchestrator returns and the result is recorded.
SearchSucceeds(r) ==
    /\ lifecycles[r].pc = "execute"
    /\ lifecycles' = [lifecycles EXCEPT ![r].record = "success", ![r].pc = "returned"]
    /\ UNCHANGED searches_remaining
    /\ QuotaFrame

\* Lines 111-129 and 142-143: create_search, the import, the orchestrator
\* or _update_search_success raises.
StepRaises(r) ==
    /\ lifecycles[r].pc \in {"create", "execute"}
    /\ lifecycles' = [lifecycles EXCEPT ![r].pc = "handler", ![r].error = "Exception"]
    /\ UNCHANGED searches_remaining
    /\ QuotaFrame

\* Lines 146-150: with a search_id the failure is recorded
\* (_update_search_failure, lines 184-205).
FailureRecorded(r) ==
    /\ lifecycles[r].pc = "handler"
    /\ lifecycles' = [lifecycles EXCEPT
                         ![r].record = IF lifecycles[r].search_id # 0 THEN "failed" ELSE @,
                         ![r].pc = "refund"]
    /\ UNCHANGED searches_remaining
    /\ QuotaFrame

\* Lines 203-205: the update of the record raises, and the exception leaves
\* the handler at line 147.
RecordFailureRaises(r) ==
    /\ lifecycles[r].pc = "handler"
    /\ lifecycles[r].search_id # 0
    /\ lifecycles' = [lifecycles EXCEPT ![r].pc = "raised"]
    /\ UNCHANGED searches_remaining
    /\ QuotaFrame

\* Lines 153-157 with refund_quota (quota_service.py 155-171): the quota
\* is given back when it was decremented, and the exception is raised.
Refund(r) ==
    /\ lifecycles[r].pc = "refund"
    /\ IF lifecycles[r].quota_decremented
       THEN /\ searches_remaining' = searches_remaining + 1
            /\ lifecycles' = [lifecycles EXCEPT ![r].refunds = @ + 1, ![r].pc = "raised"]
       ELSE /\ lifecycles' = [lifecycles EXCEPT ![r].pc = "raised"]
            /\ UNCHANGED searches_remaining
    /\ QuotaFrame

\* quota_service.py 172-178: the database function finds no subscription or
\* raises; nothing is given back.
RefundFails(r) ==
    /\ lifecycles[r].pc = "refund"
    /\ lifecycles[r].quota_decremented
    /\ lifecycles' = [lifecycles EXCEPT ![r].pc = "raised"]
    /\ UNCHANGED searches_remaining
    /\ QuotaFrame

NextQuota ==
    \E r \in Callers :
        \/ QuotaDecremented(r)
        \/ QuotaExceeded(r)
        \/ DecrementRaises(r)
        \/ SearchCreated(r)
        \/ SearchSucceeds(r)
        \/ StepRaises(r)
        \/ FailureRecorded(r)
        \/ RecordFailureRaises(r)
        \/ Refund(r)
        \/ RefundFails(r)

SpecQuota == InitQuota /\ [][NextQuota]_vars

(***************************************************************************)
(* Webhook deliveries (webhook_security.py, WebhookHandler.process_webhook *)
(* lines 177-255 with WebhookIdempotency lines 91-153): specification      *)
(* SpecWebhook.  Each worker process has its own handler object, hence its *)
(* own processed_events set; the table is shared.  The coroutines awaited  *)
(* at lines 237-248 call the database client synchronously, so a worker    *)
(* runs steps 6 to 8 of a delivery without switching to another delivery,  *)
(* while deliveries on different workers interleave.                       *)
(***************************************************************************)
Workers == {1, 2}

EventIds == { "evt_1", "evt_2" }

Deliveries == 1..MaxDeliveries

NewDelivery == [pc |-> "new", worker |-> 0, event_id |-> "", status |-> "none"]

InitWebhook ==
    /\ Config = ShippedConfig
    /\ phase = "webhook"
    /\ SelectIdle
    /\ SessionIdle
    /\ ExtractIdle
    /\ classify_calls = <<>>
    /\ ScoreIdle
    /\ SearchIdle
    /\ QuotaIdle
    /\ SummaryIdle
    /\ deliveries = [d \in Deliveries |-> NewDelivery]
    /\ processed_events = [w \in Workers |-> {}]
    /\ webhooks_table = {}
    /\ applied = [e \in EventIds |-> 0]

WebhookFrame ==
    UNCHANGED <<Config, phase, selectVars, loopVars, taskVars, extractVars, classify_calls,
                scoreVars, searchVars, quotaVars, summaryVars>>

\* Another delivery of the worker is between line 237 and line 248.
WorkerBusy(d) ==
    \E o \in Deliveries :
        /\ o # d
        /\ deliveries[o].worker = deliveries[d].worker
        /\ deliveries[o].pc \in {"process", "mark"}

\* Lines 190-234: a delivery of event e reaches worker w and passes the
\* checks of its signature, payload and timestamp.
Arrive(d, w, e) ==
    /\ deliveries[d].pc = "new"
    /\ deliveries' = [deliveries EXCEPT ![d].pc = "check", ![d].worker = w,
                                        ![d].event_id = e]
    /\ UNCHANGED <<processed_events, webhooks_table, applied>>
    /\ WebhookFrame

\* Lines 109-118: the set of the worker, then the table.
is_processed(w, e) == e \in processed_events[w] \/ e \in webhooks_table

\* Lines 237-242: step 6.
CheckIdempotency(d) ==
    /\ deliveries[d].pc = "check"
    /\ ~WorkerBusy(d)
    /\ deliveries' = [deliveries EXCEPT
           ![d].pc = IF is_processed(deliveries[d].worker, deliveries[d].event_id)
                     THEN "done" ELSE "process",
           ![d].status = IF is_processed(deliveries[d].worker, deliveries[d].event_id)
                         THEN "already_processed" ELSE @]
    /\ UNCHANGED <<processed_events, webhooks_table, applied>>
    /\ WebhookFrame

\* Lines 109-122: the event is not in the set of the worker and the query
\* of the table raises; is_processed returns False.
CheckRaises(d) ==
    /\ deliveries[d].pc = "check"
    /\ ~WorkerBusy(d)
    /\ deliveries[d].event_id \notin processed_events[deliveries[d].worker]
    /\ deliveries' = [deliveries EXCEPT ![d].pc = "process"]
    /\ UNCHANGED <<processed_events, webhooks_table, applied>>
    /\ WebhookFrame

\* Line 245: step 7, the event takes effect.
ProcessEvent(d) ==
    /\ deliveries[d].pc = "process"
    /\ applied' = [applied EXCEPT ![deliveries[d].event_id] = @ + 1]
    /\ deliveries' = [deliveries EXCEPT ![d].pc = "mark"]
    /\ UNCHANGED <<processed_events, webhooks_table>>
    /\ WebhookFrame

\* Lines 304-309: the handler of the event raises, HTTPException 500 goes
\* out and the event is not marked.
ProcessEventRaises(d) ==
    /\ deliveries[d].pc = "process"
    /\ deliveries' = [deliveries EXCEPT ![d].pc = "done", ![d].status = "error"]
    /\ UNCHANGED <<processed_events, webhooks_table, applied>>
    /\ WebhookFrame

\* Lines 248-255 with mark_processed (lines 139-150): step 8.
MarkProcessed(d) ==
    /\ deliveries[d].pc = "mark"
    /\ processed_events' = [processed_events EXCEPT ![deliveries[d].worker] =
                                @ \cup {deliveries[d].event_id}]
    /\ webhooks_table' = webhooks_table \cup {deliveries[d].event_id}
    /\ deliveries' = [deliveries EXCEPT ![d].pc = "done", ![d].status = "processed"]
    /\ UNCHANGED applied
    /\ WebhookFrame

\* Lines 139 and 152-153: the insert raises; the event is in the set of the
\* worker only.
MarkRaises(d) ==
    /\ deliveries[d].pc = "mark"
    /\ processed_events' = [processed_events EXCEPT ![deliveries[d].worker] =
                                @ \cup {deliveries[d].event_id}]
    /\ deliveries' = [deliveries EXCEPT ![d].pc = "done", ![d].status = "processed"]
    /\ UNCHANGED <<webhooks_table, applied>>
    /\ WebhookFrame

NextWebhook ==
    \E d \in Deliveries :
        \/ \E w \in Workers : \E e \in EventIds : Arrive(d, w, e)
        \/ CheckIdempotency(d)
        \/ CheckRaises(d)
        \/ ProcessEvent(d)
        \/ ProcessEventRaises(d)
        \/ MarkProcessed(d)
        \/ MarkRaises(d)

SpecWebhook == InitWebhook /\ [][NextWebhook]_vars

(***************************************************************************)
(* The summarizer downstream (summarizer_agent.py, SummarizerAgent.process *)
(* lines 119-175): specification SpecSummarize.  The class Config of       *)
(* config.py has no attribute MAX_CONCURRENT_LLM_CALLS, so the record of   *)
(* the shipped configuration has no such field; a deployment that defines  *)
(* the attribute is the second configuration.  A coroutine is suspended at *)
(* the semaphore, at the text generation call or at the sleep.             *)
(***************************************************************************)
WithLLMLimit(limit) ==
    [a \in (DOMAIN ShippedConfig) \cup {"MAX_CONCURRENT_LLM_CALLS"} |->
        IF a = "MAX_CONCURRENT_LLM_CALLS" THEN limit ELSE ShippedConfig[a]]

SummarizerConfigs == { ShippedConfig, WithLLMLimit(2) }

\* hasattr(Config, 'MAX_CONCURRENT_LLM_CALLS')
HasLLMLimit == "MAX_CONCURRENT_LLM_CALLS" \in DOMAIN Config

\* Line 122: the sources with content, by their position in sources.
RECURSIVE ValidSources(_, _)
ValidSources(sources, i) ==
    IF i > Len(sources) THEN <<>>
    ELSE IF sources[i] # ""
         THEN <<i>> \o ValidSources(sources, i + 1)
         ELSE ValidSources(sources, i + 1)

InitSummarize ==
    /\ Config \in SummarizerConfigs
    /\ phase = "summarize"
    /\ SelectIdle
    /\ SessionIdle
    /\ ExtractIdle
    /\ classify_calls = <<>>
    /\ ScoreIdle
    /\ SearchIdle
    /\ QuotaIdle
    /\ HookIdle
    /\ summarizer_pc = "start"
    /\ \E n \in 0..MaxSummarized : summarize_sources \in [1..n -> {"", "text"}]
    /\ summarize_tasks = <<>>
    /\ semaphore = 0

SummaryFrame ==
    UNCHANGED <<Config, phase, selectVars, loopVars, taskVars, extractVars, classify_calls,
                scoreVars, searchVars, quotaVars, hookVars, summarize_sources>>

\* Lines 119-165: no valid source returns at once (line 125); otherwise the
\* semaphore is created from the configured limit (line 153), which raises
\* AttributeError when Config has no such attribute, and gather() starts
\* one bounded_summarize coroutine per valid source, each up to the
\* semaphore.
SummarizeStart ==
    /\ summarizer_pc = "start"
    /\ LET valid_sources == ValidSources(summarize_sources, 1)
       IN  IF valid_sources = <<>>
           THEN /\ summarizer_pc' = "returned"
                /\ UNCHANGED <<summarize_tasks, semaphore>>
           ELSE IF ~HasLLMLimit
           THEN /\ summarizer_pc' = "raised"
                /\ UNCHANGED <<summarize_tasks, semaphore>>
           ELSE /\ summarizer_pc' = "gather"
                /\ semaphore' = Config.MAX_CONCURRENT_LLM_CALLS
                /\ summarize_tasks' =
                       [k \in 1..Len(valid_sources) |->
                           [source |-> valid_sources[k], status |-> "waiting",
                            attempts |-> 0, result |-> "none"]]
    /\ SummaryFrame

\* Line 156: async with semaphore admits the coroutine; line 134: it calls
\* the text generation.
Acquire(k) ==
    /\ summarizer_pc = "gather"
    /\ summarize_tasks[k].status = "waiting"
    /\ semaphore > 0
    /\ semaphore' = semaphore - 1
    /\ summarize_tasks' = [summarize_tasks EXCEPT ![k] =
                              [@ EXCEPT !.status = "calling", !.attempts = @ + 1]]
    /\ UNCHANGED summarizer_pc
    /\ SummaryFrame

\* Lines 134-147: the call returns a summary; the coroutine sleeps
\* (line 159) inside the semaphore.
LLMReturns(k) ==
    /\ summarizer_pc = "gather"
    /\ summarize_tasks[k].status = "calling"
    /\ summarize_tasks' = [summarize_tasks EXCEPT ![k] =
                              [@ EXCEPT !.status = "sleeping", !.result = "summary"]]
    /\ UNCHANGED <<summarizer_pc, semaphore>>
    /\ SummaryFrame

\* Lines 149-151: the call raises; summarize_source returns None.
LLMRaises(k) ==
    /\ summarizer_pc = "gather"
    /\ summarize_tasks[k].status = "calling"
    /\ summarize_tasks' = [summarize_tasks EXCEPT ![k] =
                              [@ EXCEPT !.status = "sleeping", !.result = "None"]]
    /\ UNCHANGED <<summarizer_pc, semaphore>>
    /\ SummaryFrame

\* Lines 159-160: the sleep ends, the semaphore is released and the
\* coroutine returns its result.
Release(k) ==
    /\ summarizer_pc = "gather"
    /\ summarize_tasks[k].status = "sleeping"
    /\ semaphore' = semaphore + 1
    /\ summarize_tasks' = [summarize_tasks EXCEPT ![k] = [@ EXCEPT !.status = "done"]]
    /\ UNCHANGED summarizer_pc
    /\ SummaryFrame

\* Lines 165-175: gather() returns when every coroutine has returned.
SummarizeReturns ==
    /\ summarizer_pc = "gather"
    /\ \A k \in 1..Len(summarize_tasks) : summarize_tasks[k].status = "done"
    /\ summarizer_pc' = "returned"
    /\ UNCHANGED <<summarize_tasks, semaphore>>
    /\ SummaryFrame

NextSummarize ==
    \/ SummarizeStart
    \/ \E k \in 1..Len(summarize_tasks) : Acquire(k)
    \/ \E k \in 1..Len(summarize_tasks) : LLMReturns(k)
    \/ \E k \in 1..Len(summarize_tasks) : LLMRaises(k)
    \/ \E k \in 1..Len(summarize_tasks) : Release(k)
    \/ SummarizeReturns

SpecSummarize == InitSummarize /\ [][NextSummarize]_vars

(***************************************************************************)
(* One call of extract_content_with_sections, statement by statement       *)
(* (lines 221-304): every statement inside the try block can raise, and    *)
(* the handler at line 301 falls through to the return of line 304.        *)
(***************************************************************************)
\* The pages a call is made on.
ExtractUrls ==
    { [netloc |-> <<"www", "mit", "edu">>,      path |-> "/a"],
      [netloc |-> <<"blog", "example", "com">>, path |-> "/c"] }

\* What requests.get and BeautifulSoup hand over: version v of the page, n
\* headings whose section passes the test of line 251, and whether the page
\* has <p> elements with text (main).
ExtractDocs == [v : Versions, n : 0..MaxHeadings, main : BOOLEAN]

\* The SourceMetadata of lines 287-299.
MainSource(url, doc, now) ==
    [MakeSource(url, doc, 0, now) EXCEPT !.paragraph_id = <<"main">>]

InitExtract ==
    /\ Config = ShippedConfig
    /\ phase = "extract"
    /\ SelectIdle
    /\ SessionIdle
    /\ extract_pc = "fetch"
    /\ extract_url \in ExtractUrls
    /\ response = <<>>
    /\ heading_idx = 0
    /\ sections = <<>>
    /\ extract_failed = FALSE
    /\ extract_result = <<>>
    /\ classify_calls = <<>>
    /\ ScoreIdle
    /\ ServiceIdle

\* What a step of the extractor leaves alone.
ExtractFrame ==
    UNCHANGED <<Config, phase, selectVars, loopVars, taskVars, classify_calls, scoreVars,
                serviceVars>>

\* Lines 224-230: the page is fetched and parsed.
FetchReturns ==
    /\ extract_pc = "fetch"
    /\ \E doc \in ExtractDocs : response' = doc
    /\ extract_pc' = "headings"
    /\ UNCHANGED <<extract_url, heading_idx, sections, extract_failed, extract_result>>
    /\ ExtractFrame

\* Lines 233-273: one turn of the loop over the headings appends a section.
BuildSection ==
    /\ extract_pc = "headings"
    /\ heading_idx < response.n
    /\ sections' = Append(sections, MakeSource(extract_url, response, heading_idx, 1))
    /\ heading_idx' = heading_idx + 1
    /\ UNCHANGED <<extract_pc, extract_url, response, extract_failed, extract_result>>
    /\ ExtractFrame

\* Lines 276-299: the loop is over; without sections the main content is taken.
MainContent ==
    /\ extract_pc = "headings"
    /\ heading_idx = response.n
    /\ sections' = IF sections = <<>> /\ response.main
                   THEN <<MainSource(extract_url, response, 1)>>
                   ELSE sections
    /\ extract_pc' = "return"
    /\ UNCHANGED <<extract_url, response, heading_idx, extract_failed, extract_result>>
    /\ ExtractFrame

\* Line 304 reached from the end of the try block.
ExtractReturns ==
    /\ extract_pc = "return"
    /\ extract_result' = sections
    /\ extract_pc' = "returned"
    /\ UNCHANGED <<extract_url, response, heading_idx, sections, extract_failed>>
    /\ ExtractFrame

\* Lines 301-304: a statement of the try block raises (the fetch, the status
\* check, the parse, a turn of the loop, the main content); the handler
\* prints and the function returns sections as it stands.
ExtractRaises ==
    /\ extract_pc \in {"fetch", "headings"}
    /\ extract_failed' = TRUE
    /\ extract_result' = sections
    /\ extract_pc' = "returned"
    /\ UNCHANGED <<extract_url, response, heading_idx, sections>>
    /\ ExtractFrame

NextExtract ==
    \/ FetchReturns
    \/ BuildSection
    \/ MainContent
    \/ ExtractReturns
    \/ ExtractRaises

SpecExtract == InitExtract /\ [][NextExtract]_vars

(***************************************************************************)
(* Properties of the selection (SpecSelect, SpecOrder)                     *)
(***************************************************************************)
Selected == phase = "selected"

\* Number of fragments of list whose domain key is domain.
DomainCount(list, domain) ==
    Cardinality({j \in 1..Len(list) : DomainKey(list[j]) = domain})

IsPrefix(a, b) == Len(a) <= Len(b) /\ SubSeq(b, 1, Len(a)) = a

Unadmitted == {i \in 1..Len(unique_sources) : ~InList(unique_sources[i], final_sources)}

\* C1: the list returned by the selection of process() holds at most
\* MAX_TOTAL_SOURCES fragments.
C1_AtMostMaxTotal ==
    Selected => Len(final_sources) <= Config.MAX_TOTAL_SOURCES

\* C2: among the fragments admitted by the first and second pass no trusted
\* domain holds more than 2 x MAX_SOURCES_PER_DOMAIN_FINAL fragments and no
\* untrusted domain more than MAX_SOURCES_PER_DOMAIN_FINAL; whatever the
\* returned list holds beyond those was admitted by the floor pass (it lies
\* behind the fragments of the first two passes).
C2_DomainCaps ==
    Selected =>
        /\ IsPrefix(pass1_sources, pass2_sources)
        /\ IsPrefix(pass2_sources, final_sources)
        /\ \A i \in 1..Len(pass2_sources) :
               DomainCount(pass2_sources, DomainKey(pass2_sources[i])) <=
                   IF pass2_sources[i].is_trusted
                   THEN 2 * Config.MAX_SOURCES_PER_DOMAIN_FINAL
                   ELSE Config.MAX_SOURCES_PER_DOMAIN_FINAL

\* An untrusted domain filled to its cap by the second pass, with more of
\* its fragments admitted by the floor pass.
C2_Witness ==
    /\ Selected
    /\ \E i \in 1..Len(pass2_sources) :
           /\ ~pass2_sources[i].is_trusted
           /\ DomainCount(pass2_sources, DomainKey(pass2_sources[i]))
                  = Config.MAX_SOURCES_PER_DOMAIN_FINAL
           /\ DomainCount(final_sources, DomainKey(pass2_sources[i]))
                  > Config.MAX_SOURCES_PER_DOMAIN_FINAL
    /\ \E i \in 1..Len(pass1_sources) :
           DomainCount(pass1_sources, DomainKey(pass1_sources[i]))
               = 2 * Config.MAX_SOURCES_PER_DOMAIN_FINAL

\* C3: the floor pass runs only when the first two passes admitted fewer
\* than MIN_SOURCES; it admits not-yet-admitted fragments in descending
\* relevance, never lifts a domain above 2 x the final cap and stops at
\* MIN_SOURCES; on return either MIN_SOURCES fragments are returned or every
\* unadmitted deduplicated fragment is of a domain holding 2 x the final cap.
C3_FloorGuarantee ==
    Selected =>
        /\ Len(pass2_sources) >= MIN_SOURCES => final_sources = pass2_sources
        /\ Len(pass2_sources) < MIN_SOURCES => Len(final_sources) <= MIN_SOURCES
        /\ \A i \in (Len(pass2_sources) + 1)..Len(final_sources) :
               /\ ~InList(final_sources[i], pass2_sources)
               /\ InList(final_sources[i], unique_sources)
               /\ DomainCount(final_sources, DomainKey(final_sources[i]))
                      <= 2 * Config.MAX_SOURCES_PER_DOMAIN_FINAL
               /\ i < Len(final_sources) =>
                      final_sources[i].relevance_score
                          >= final_sources[i + 1].relevance_score
        /\ \/ Len(final_sources) >= MIN_SOURCES
           \/ \A i \in Unadmitted :
                  DomainCount(final_sources, DomainKey(unique_sources[i]))
                      = 2 * Config.MAX_SOURCES_PER_DOMAIN_FINAL

\* The floor pass admitted fragments, the floor is still not met and a
\* fragment is left out because its domain is full.
C3_Witness ==
    /\ Selected
    /\ Len(final_sources) > Len(pass2_sources)
    /\ Len(final_sources) < MIN_SOURCES
    /\ Unadmitted # {}

\* C37: with a budget and a cap of at least 1, the returned list, floor pass
\* included, holds at most max(MAX_TOTAL_SOURCES, MIN_SOURCES) fragments and
\* at most 2 x MAX_SOURCES_PER_DOMAIN_FINAL fragments of any one domain.
C37_HardBounds ==
    (/\ Selected
     /\ Config.MAX_TOTAL_SOURCES >= 1
     /\ Config.MAX_SOURCES_PER_DOMAIN_FINAL >= 1) =>
        /\ Len(final_sources) <= Max2(Config.MAX_TOTAL_SOURCES, MIN_SOURCES)
        /\ \A i \in 1..Len(final_sources) :
               DomainCount(final_sources, DomainKey(final_sources[i]))
                   <= 2 * Config.MAX_SOURCES_PER_DOMAIN_FINAL

\* The floor pass has lifted the list above the budget and an untrusted
\* domain to twice its cap, and left a fragment of that domain out.
C37_Witness ==
    /\ Selected
    /\ Len(final_sources) > Config.MAX_TOTAL_SOURCES
    /\ \E i \in Unadmitted :
           /\ ~unique_sources[i].is_trusted
           /\ DomainCount(final_sources, DomainKey(unique_sources[i]))
                  = 2 * Config.MAX_SOURCES_PER_DOMAIN_FINAL

\* C5: the returned list holds at most one fragment per (url, fragment id),
\* and the fragment returned for a pair is the first one of the input pool
\* that carries the pair.
C5_DedupFirstOccurrence ==
    Selected =>
        /\ \A i, j \in 1..Len(final_sources) :
               SourceKey(final_sources[i]) = SourceKey(final_sources[j]) => i = j
        /\ \A i \in 1..Len(final_sources) :
               \E k \in 1..Len(all_sources) :
                   /\ all_sources[k] = final_sources[i]
                   /\ \A m \in 1..(k - 1) :
                          SourceKey(all_sources[m]) # SourceKey(final_sources[i])

\* A pair carried by two different fragments of the pool, one of them returned.
C5_Witness ==
    /\ Selected
    /\ \E k, m \in 1..Len(all_sources) :
           /\ k < m
           /\ SourceKey(all_sources[k]) = SourceKey(all_sources[m])
           /\ all_sources[k] # all_sources[m]
           /\ InList(all_sources[k], final_sources)

\* Position of src in pool.
IndexIn(pool, src) == CHOOSE k \in 1..Len(pool) : pool[k] = src

\* list is in descending relevance order, fragments of equal relevance in
\* the order they have in pool.
OrderedDesc(list, pool) ==
    \A i, j \in 1..Len(list) :
        i < j =>
            \/ list[i].relevance_score > list[j].relevance_score
            \/ /\ list[i].relevance_score = list[j].relevance_score
               /\ IndexIn(pool, list[i]) < IndexIn(pool, list[j])

\* Every trusted fragment of list precedes every untrusted one.
TrustedFirst(list) ==
    \A i, j \in 1..Len(list) : (list[i].is_trusted /\ ~list[j].is_trusted) => i < j

\* The trusted fragments of the pool in the order the first pass considers
\* them.
TrustedByRelevance == SortByRelevance(TrustedOf(unique_sources))

\* Positions before k in that order whose fragment the first pass admitted.
AdmittedBefore(k) ==
    {j \in 1..(k - 1) : InList(TrustedByRelevance[j], pass1_sources)}

\* C26: the first pass goes through the trusted fragments in descending
\* relevance and admits a fragment exactly when fewer than 50% of the
\* max-total-sources budget are admitted so far and its domain holds fewer
\* than twice the final per-domain cap; it admits at most ceil(0.5 x
\* budget) fragments, all trusted, and they head the returned list, every
\* untrusted fragment coming after them.
C26_FirstPass ==
    Selected =>
        /\ IsPrefix(pass1_sources, final_sources)
        /\ \A j \in 1..Len(pass1_sources) : pass1_sources[j].is_trusted
        /\ Len(pass1_sources) <= (Config.MAX_TOTAL_SOURCES + 1) \div 2
        /\ \A j \in 1..Len(pass1_sources) :
               DomainCount(pass1_sources, DomainKey(pass1_sources[j]))
                   <= 2 * Config.MAX_SOURCES_PER_DOMAIN_FINAL
        /\ \A k \in 1..Len(TrustedByRelevance) :
               InList(TrustedByRelevance[k], pass1_sources) <=>
                   /\ 2 * Cardinality(AdmittedBefore(k)) < Config.MAX_TOTAL_SOURCES
                   /\ Cardinality({j \in AdmittedBefore(k) :
                                      DomainKey(TrustedByRelevance[j])
                                          = DomainKey(TrustedByRelevance[k])})
                          < 2 * Config.MAX_SOURCES_PER_DOMAIN_FINAL

\* The pass stopped at 50% of the budget with trusted fragments left whose
\* domain was below its cap, and untrusted fragments follow in the list.
C26_Witness ==
    /\ Selected
    /\ 2 * Len(pass1_sources) >= Config.MAX_TOTAL_SOURCES
    /\ \E k \in 1..Len(TrustedByRelevance) :
           /\ ~InList(TrustedByRelevance[k], pass1_sources)
           /\ DomainCount(pass1_sources, DomainKey(TrustedByRelevance[k]))
                  < 2 * Config.MAX_SOURCES_PER_DOMAIN_FINAL
    /\ Len(pass2_sources) > Len(pass1_sources)

\* C14 as claimed: in the list the selection returns every trusted fragment
\* precedes every untrusted one, and each of the two groups is in descending
\* relevance order with fragments of equal relevance in input order.
C14_ReturnedListOrdered ==
    Selected =>
        /\ TrustedFirst(final_sources)
        /\ OrderedDesc(TrustedOf(final_sources), all_sources)
        /\ OrderedDesc(UntrustedOf(final_sources), all_sources)

\* What the floor pass appended to the list of the first two passes.
FloorPart == SubSeq(final_sources, Len(pass2_sources) + 1, Len(final_sources))

\* C14 amended: the claimed order holds of the fragments the first two passes
\* admitted, which head the returned list; what the floor pass appends
\* behind them is in descending relevance order, fragments of equal
\* relevance in input order, trusted and untrusted mixed.
C14_AdmissionOrder ==
    Selected =>
        /\ IsPrefix(pass2_sources, final_sources)
        /\ TrustedFirst(pass2_sources)
        /\ OrderedDesc(TrustedOf(pass2_sources), all_sources)
        /\ OrderedDesc(UntrustedOf(pass2_sources), all_sources)
        /\ OrderedDesc(FloorPart, all_sources)

\* Both groups were admitted by the first two passes with fragments of equal
\* relevance among them, and the floor pass put a trusted fragment behind
\* the untrusted ones.
C14_Witness ==
    /\ Selected
    /\ \E i, j \in 1..Len(pass2_sources) :
           /\ i < j
           /\ pass2_sources[i].is_trusted = pass2_sources[j].is_trusted
           /\ pass2_sources[i].relevance_score = pass2_sources[j].relevance_score
    /\ \E i \in 1..Len(pass2_sources) : ~pass2_sources[i].is_trusted
    /\ \E i \in 1..Len(FloorPart) : FloorPart[i].is_trusted

(***************************************************************************)
(* Properties of the research session (Spec)                               *)
(***************************************************************************)
Done == pc = "done"

\* The gather() of the round the tasks belong to has returned and the
\* selection of that round has run.
RoundJoined == pc \in {"followup", "done"} \/ (pc = "expand" /\ iteration > 1)

LastFollowUp == follow_ups[Len(follow_ups)]

\* C4: process_iterative returns fewer than MIN_SOURCES fragments only if the
\* floor cannot be met from the accumulated fragments: every accumulated
\* fragment is returned or is of a domain that holds the relaxed cap.
C4_FloorAfterRefine ==
    Done =>
        \/ Len(returned) >= MIN_SOURCES
        \/ \A i \in 1..Len(iterative_sources) :
               \/ InList(iterative_sources[i], returned)
               \/ DomainCount(returned, DomainKey(iterative_sources[i])) >= FloorLimit

\* Steps a coroutine can still take: three per hit not yet dealt with.
TaskRank(task) ==
    CASE task.status = "searching"  -> 3 * Config.MAX_RESULTS_PER_SEARCH + 2
      [] task.status = "extracting" -> 3 * (Len(task.hits) - task.i) + 2
      [] task.status = "sleeping"   -> 3 * (Len(task.hits) - task.i) + 1
      [] OTHER -> 0

RECURSIVE SumRanks(_, _)
SumRanks(ts, t) == IF t > Len(ts) THEN 0 ELSE TaskRank(ts[t]) + SumRanks(ts, t + 1)

\* More than the steps of one round: at most 5 follow-up terms and 4
\* expansion terms make 9 coroutines.
RoundWeight == 9 * (3 * Config.MAX_RESULTS_PER_SEARCH + 2) + 4

\* Steps the session can still take.
Measure ==
    IF Done THEN 0
    ELSE (max_iterations - iteration) * RoundWeight +
         CASE pc = "expand"   -> RoundWeight - 1
           [] pc = "fanout"   -> 2 + SumRanks(tasks, 1)
           [] pc = "followup" -> 1
           [] OTHER -> 0

\* C6: at most max_iterations rounds are run, the session reaches its
\* terminal state (final selection made, list returned), and it is there
\* because the rounds are exhausted or because the last follow-up answer
\* held no new term.
\* The session awaits something whose return resumes it: the expansion or
\* follow-up answer, a search, a fetch or a sleep of a coroutine, or, with
\* every coroutine completed, gather().
Resumable ==
    \/ pc \in {"expand", "followup"}
    \/ /\ pc = "fanout"
       /\ \/ GatherReady
          \/ \E t \in 1..Len(tasks) :
                 tasks[t].status \in {"searching", "extracting", "sleeping"}

\* Every step of the session strictly decreases Measure, a natural number,
\* and a session that is not in its terminal state can take a step: no run
\* goes on for ever and none stops short of the terminal state as long as
\* the awaited calls return.
C6_FiniteLoop ==
    /\ [](iteration <= max_iterations)
    /\ [](Done => \/ iteration = max_iterations
                  \/ (follow_ups # <<>> /\ LastFollowUp = <<>>))
    /\ [](Measure >= 0)
    /\ [][Measure' < Measure]_vars
    /\ [](Done \/ Resumable)

\* The rounds are exhausted after a follow-up round: the last follow-up
\* answer held new terms and the loop still ended.
C6_Witness ==
    /\ Done
    /\ iteration = max_iterations
    /\ iteration >= 2
    /\ LastFollowUp # <<>>
    /\ fetch_calls > round1.fetch_calls

\* C7: when the first follow-up request (that of round 2) yields no term, the
\* session is over after round 1: no search and no fetch was made since the
\* end of round 1 and the pool of the final selection is what round 1 returned.
C7_EmptyFollowUpStops ==
    (follow_ups # <<>> /\ follow_ups[1] = <<>>) =>
        /\ Done
        /\ iteration = 1
        /\ search_calls = round1.search_calls
        /\ fetch_calls = round1.fetch_calls
        /\ iterative_sources = round1.sources
        /\ \A i \in 1..Len(returned) : InList(returned[i], round1.sources)

\* The text generation was asked (round 1 had found sources) and answered
\* without a new term, with more rounds allowed.
C7_Witness ==
    /\ follow_ups = << <<>> >>
    /\ round1.sources # <<>>
    /\ max_iterations >= 2
    /\ Done
    /\ returned # <<>>

\* C8: within a round no URL is handed to the extractor more than once,
\* whatever the interleaving of the term coroutines.
C8_ExtractedOnce ==
    \A url \in DOMAIN extract_count : extract_count[url] <= 1

HitsOf(task) == {task.hits[k] : k \in 1..Len(task.hits)}

\* Two coroutines of a round were both offered a URL by their searches, both
\* ran to their end and the URL was extracted once.
C8_Witness ==
    \E t1, t2 \in 1..Len(tasks) :
        /\ t1 # t2
        /\ tasks[t1].status = "done" /\ tasks[t2].status = "done"
        /\ \E url \in HitsOf(tasks[t1]) \cap HitsOf(tasks[t2]) :
               Get(extract_count, url) = 1

RECURSIVE ExtractedByDone(_, _)
ExtractedByDone(ts, t) ==
    IF t > Len(ts) THEN <<>>
    ELSE (IF ts[t].status = "done" THEN ts[t].local_sources ELSE <<>>)
         \o ExtractedByDone(ts, t + 1)

\* C9: a failed coroutine leaves the round intact: every coroutine of the
\* round either failed or ran through all its hits (none was cancelled), the
\* pool given to the selection is exactly what the others extracted, in term
\* order, and the round went on to its selection instead of raising.
C9_FailureIsolation ==
    RoundJoined =>
        /\ \A t \in 1..Len(tasks) :
               \/ tasks[t].status = "failed"
               \/ /\ tasks[t].status = "done"
                  /\ NextAccepted(tasks[t].hits, 1, seen_urls, tasks[t].domain_counts) = 0
        /\ all_sources = ExtractedByDone(tasks, 1)
        /\ unique_sources = Deduplicate(all_sources)

\* One coroutine failed after it had extracted fragments, another one
\* extracted fragments and returned them.
C9_Witness ==
    /\ RoundJoined
    /\ \E t1, t2 \in 1..Len(tasks) :
           /\ tasks[t1].status = "failed" /\ tasks[t1].local_sources # <<>>
           /\ tasks[t2].status = "done" /\ tasks[t2].local_sources # <<>>
    /\ final_sources # <<>>

\* C10: the step that leaves the fan-out (gather() returning, selection
\* running) is taken only when every coroutine of the round has returned or
\* failed, and it takes the coroutines as they are: none is cancelled.
C10_FanInBeforeSelection ==
    [][(pc = "fanout" /\ pc' # "fanout") =>
           /\ \A t \in 1..Len(tasks) : Completed(tasks[t])
           /\ tasks' = tasks
           /\ all_sources' = ExtractedByDone(tasks, 1)]_vars

\* The selection has run on a round in which one coroutine had nothing to do
\* while another one went through two extractions.
C10_Witness ==
    /\ RoundJoined
    /\ \E t1, t2 \in 1..Len(tasks) :
           /\ tasks[t1].status = "done" /\ tasks[t1].hits = <<>>
           /\ tasks[t2].status = "done" /\ Len(tasks[t2].local_sources) = 16
    /\ Len(all_sources) = 16

\* An answer without a usable list of terms: a failed call, an empty or
\* unparsable text, a value that is no list, or the empty list.
NoList(resp) == resp.kind # "list" \/ resp.terms = <<>>

\* C12: when the answer to a follow-up prompt is a failed call, empty,
\* unparsable, no list or an empty list, the step that receives it ends the
\* loop: the session is in its terminal state, what it returns is the final
\* selection from the fragments collected up to then, and nothing is
\* searched or fetched any more.
C12_BadAnswerEndsLoop ==
    [][(Len(answers') > Len(answers) /\ NoList(answers'[Len(answers')])) =>
           /\ pc' = "done"
           /\ iterative_sources' = iterative_sources
           /\ returned' = final_iterative_selection(iterative_sources)
           /\ iteration' = iteration
           /\ search_calls' = search_calls
           /\ fetch_calls' = fetch_calls]_vars

\* A follow-up answer that parsed to an object ended a session that had
\* rounds left and fragments to return.
C12_Witness ==
    /\ Done
    /\ answers # <<>>
    /\ answers[Len(answers)].kind = "object"
    /\ iteration < max_iterations
    /\ returned # <<>>

\* C27: every term a round after the first runs through the fan-out is new:
\* lower-cased, it is none of the lower-cased terms searched in earlier
\* rounds.
C27_TermsAreNew ==
    (pc = "fanout" /\ iteration >= 2) =>
        \A t \in 1..Len(tasks) :
            TermLower(tasks[t].term) \notin {TermLower(h) : h \in search_history}

\* The terms the coroutines of a round are started with, in task order.
TermsRun(ts) == [t \in 1..Len(ts) |-> ts[t].term]

\* C28 as claimed: the terms a round searches are exactly the terms given to
\* it, the original search terms in round 1 and the follow-up terms in a
\* later round.
C28_OnlyGivenTerms ==
    [][(pc = "expand" /\ pc' = "fanout") =>
           {tasks'[t].term : t \in 1..Len(tasks')}
               = {search_terms[i] : i \in 1..Len(search_terms)}]_vars

\* C28 amended: the terms a round searches are the terms given to it (in a
\* later round the follow-up terms proposed for it) followed by at most 4
\* terms of the round's own expansion, none of which is, lower-cased, one of
\* the lower-cased given terms; one search call is made per term run.
C28_GivenPlusExpansion ==
    [][(pc = "expand" /\ pc' = "fanout") =>
           /\ IsPrefix(search_terms, TermsRun(tasks'))
           /\ Len(tasks') <= Len(search_terms) + 4
           /\ \A t \in (Len(search_terms) + 1)..Len(tasks') :
                  TermLower(tasks'[t].term)
                      \notin {TermLower(search_terms[i]) : i \in 1..Len(search_terms)}
           /\ iteration >= 2 => search_terms = LastFollowUp
           /\ search_calls' = search_calls + Len(tasks')]_vars

\* A round after the first runs its follow-up terms and a term of its own
\* expansion.
C28_Witness ==
    /\ pc = "fanout"
    /\ iteration >= 2
    /\ Len(tasks) > Len(LastFollowUp)
    /\ IsPrefix(LastFollowUp, TermsRun(tasks))

\* The (url, paragraph_id) pairs of a list of fragments.
KeysOf(sources) == {SourceKey(sources[i]) : i \in 1..Len(sources)}

\* C29: the accumulated pool never holds two fragments with the same
\* (url, paragraph_id), and every step keeps the fragments it already holds,
\* in place: a round only appends.
C29_PoolUniqueAppendOnly ==
    /\ [](\A i, j \in 1..Len(iterative_sources) :
              SourceKey(iterative_sources[i]) = SourceKey(iterative_sources[j])
                  => i = j)
    /\ [][IsPrefix(iterative_sources, iterative_sources')]_vars

\* A later round has selected a fragment whose pair the pool already held,
\* and one whose pair is new: the first was not added again, the second was.
C29_Witness ==
    /\ pc = "done"
    /\ iteration >= 2
    /\ \E i \in 1..Len(final_sources) :
           SourceKey(final_sources[i]) \in KeysOf(round1.sources)
    /\ Len(iterative_sources) > Len(round1.sources)
    /\ Len(iterative_sources) < Len(round1.sources) + Len(final_sources)

\* The URLs the fragments of a list were extracted from.
UrlsOf(sources) == {sources[i].url : i \in 1..Len(sources)}

\* C30: the seen-URL set runs through the whole session: a URL accepted for
\* extraction in a round is never accepted for extraction in a later round.
\* The URLs of the fragments round 1 selected were accepted in round 1; a
\* step that adds a URL to the seen set accepts it.
C30_NeverAcceptedAgain ==
    [][iteration >= 2 =>
           \A url \in seen_urls' \ seen_urls :
               url \notin UrlsOf(round1.sources)]_vars

\* Answers to the expansion prompt beyond those the session is run with: a
\* list of more new terms than process() takes, one of them an original
\* term in another case, and a text that is no JSON.
LongAnswers ==
    { [ok |-> TRUE,  terms |-> <<"AI", "nlp", "cv", "rl", "llm", "rag">>],
      [ok |-> FALSE, terms |-> <<"nlp">>] }

\* What process() makes of the list it is given when the expansion prompt
\* is answered by resp.
Extended(terms, resp) == terms \o ExpandedTerms(terms, resp)

\* The list after is the list before, unchanged and in place, followed by
\* at most 4 terms none of which is, lower-cased, a lower-cased term of the
\* list before.
ExtendedInPlace(before, after) ==
    /\ IsPrefix(before, after)
    /\ Len(after) <= Len(before) + 4
    /\ \A i \in (Len(before) + 1)..Len(after) :
           TermLower(after[i]) \notin {TermLower(before[k]) : k \in 1..Len(before)}

\* C39: process() changes the list of search terms it is given in place: the
\* list holds the given terms unchanged and in their positions, followed by
\* at most 4 expansion terms none of which equals a given term whatever the
\* case, and is the given list when the expansion call fails or its answer
\* cannot be parsed; in round 1 the list is query_analysis['search_terms']
\* itself; the list does not change while the coroutines run; and when the
\* round ends every term of the list, the expansion terms included, is in
\* the search history.
C39_ListExtendedInPlace ==
    /\ [][(pc = "expand" /\ pc' = "fanout") =>
             /\ ExtendedInPlace(search_terms, search_terms')
             /\ ~expansion'.ok => search_terms' = search_terms
             /\ iteration = 1 => query_terms' = search_terms'
             /\ iteration >= 2 => search_terms = LastFollowUp
             /\ \A resp \in LongAnswers :
                    /\ ExtendedInPlace(search_terms, Extended(search_terms, resp))
                    /\ ~resp.ok => Extended(search_terms, resp) = search_terms]_vars
    /\ [][pc = "fanout" =>
             /\ search_terms' = search_terms
             /\ pc' # "fanout" =>
                    /\ {search_terms[i] : i \in 1..Len(search_terms)} \subseteq search_history'
                    /\ {tasks[t].term : t \in 1..Len(tasks)} \subseteq search_history'
                    /\ search_history \subseteq search_history']_vars

\* A round after the first has ended: its list is the follow-up terms it
\* was given followed by a term of its own expansion, and that term is in
\* the search history.
C39_Witness ==
    /\ iteration >= 2
    /\ pc \notin {"expand", "fanout"}
    /\ expansion.ok
    /\ Len(search_terms) > Len(LastFollowUp)
    /\ IsPrefix(LastFollowUp, search_terms)
    /\ search_terms[Len(search_terms)] \in search_history
    /\ search_terms[Len(search_terms)] \notin {LastFollowUp[i] : i \in 1..Len(LastFollowUp)}

\* A round has started after an expansion call that failed.
C39_FailedExpansion ==
    /\ pc = "fanout"
    /\ ~expansion.ok
    /\ iteration >= 2

\* No element of the list occurs at two positions.
NoneTwice(list) ==
    \A i \in 1..Len(list) : \A j \in 1..Len(list) : list[i] = list[j] => i = j

\* Every element of the list is an element of the pool, field by field.
AllFrom(list, pool) == \A i \in 1..Len(list) : InList(list[i], pool)

\* What the trusted pass of the final selection (lines 724-732) has admitted
\* from the accumulated fragments.
IterativeTrustedPass ==
    IterTrustedFrom(SortByRelevance(TrustedOf(iterative_sources)), 1,
                    [final |-> <<>>, counts |-> EmptyDict]).final

\* C40: selection only filters.  Every fragment process() returns is a
\* fragment of the pool it selected from, with every field as it was, and
\* none is returned twice; each pass keeps what the passes before it
\* admitted, in place, and only appends.  The same holds of the final
\* selection of the session over the accumulated fragments.
C40_SelectionOnlyFilters ==
    /\ AllFrom(final_sources, all_sources)
    /\ AllFrom(final_sources, unique_sources)
    /\ NoneTwice(final_sources)
    /\ IsPrefix(pass1_sources, pass2_sources)
    /\ IsPrefix(pass2_sources, final_sources)
    /\ pc = "done" =>
           /\ AllFrom(returned, iterative_sources)
           /\ NoneTwice(returned)
           /\ returned # <<>> => IsPrefix(IterativeTrustedPass, returned)

\* A session has ended whose last round selected with all three passes
\* admitting fragments and some fragment of the pool left out, and whose
\* final selection admitted trusted and untrusted fragments and left some
\* accumulated fragment out.
C40_Witness ==
    /\ pc = "done"
    /\ Len(pass1_sources) > 0
    /\ Len(pass2_sources) > Len(pass1_sources)
    /\ Len(final_sources) > Len(pass2_sources)
    /\ Len(final_sources) < Len(all_sources)
    /\ Len(IterativeTrustedPass) > 0
    /\ Len(returned) > Len(IterativeTrustedPass)
    /\ Len(returned) < Len(iterative_sources)

\* The fragments the coroutines of the round under way have extracted.
RECURSIVE ExtractedSoFar(_, _)
ExtractedSoFar(ts, t) ==
    IF t > Len(ts) THEN <<>>
    ELSE ts[t].local_sources \o ExtractedSoFar(ts, t + 1)

\* C22: a section extracted again from the same url with the same content
\* gets the fragment identifier it got before: a fragment of the round
\* under way and an accumulated fragment of an earlier round with the same
\* url and the same text have the same (url, fragment-id) pair.
C22_SameSectionSameId ==
    LET fresh == ExtractedSoFar(tasks, 1)
    IN  \A i \in 1..Len(iterative_sources) : \A j \in 1..Len(fresh) :
            (/\ iterative_sources[i].url = fresh[j].url
             /\ iterative_sources[i].content = fresh[j].content) =>
                SourceKey(iterative_sources[i]) = SourceKey(fresh[j])

\* A page extracted in round 1 was extracted again in a later round, at
\* another time, and a section of it is in both extractions.
C22_Witness ==
    LET fresh == ExtractedSoFar(tasks, 1)
    IN  \E i \in 1..Len(iterative_sources) : \E j \in 1..Len(fresh) :
            /\ iterative_sources[i].url = fresh[j].url
            /\ iterative_sources[i].content = fresh[j].content
            /\ iterative_sources[i].timestamp # fresh[j].timestamp
            /\ SourceKey(iterative_sources[i]) = SourceKey(fresh[j])

(***************************************************************************)
(* Properties of the coroutine of one term (SpecTerm)                      *)
(***************************************************************************)
\* The URLs of a list that are pages of the domain of url.
FromDomainOf(url, urls) ==
    {k \in 1..Len(urls) : netloc_lower(urls[k]) = netloc_lower(url)}

\* The per-term cap of the domain of url as claimed: the configured cap,
\* twice the cap for a trusted domain.
PerTermCap(url) ==
    IF is_trusted_domain(url)
    THEN 2 * Config.MAX_SOURCES_PER_DOMAIN_PER_TERM
    ELSE Config.MAX_SOURCES_PER_DOMAIN_PER_TERM

\* The hits a step of coroutine t went past without accepting them: the
\* step ran the loop of line 378 from the hit after the last accepted one to
\* the hit it accepts, or to the end.
PassedOver(t) ==
    IF /\ tasks[t].status \in {"searching", "sleeping"}
       /\ tasks'[t].status \in {"extracting", "done"}
    THEN LET from == IF tasks[t].status = "searching" THEN 1 ELSE tasks[t].i + 1
             to   == IF tasks'[t].status = "extracting"
                     THEN tasks'[t].i - 1 ELSE Len(tasks'[t].hits)
         IN  {tasks'[t].hits[k] : k \in from..to}
    ELSE {}

FragmentsFromDomainOf(url, sources) ==
    {k \in 1..Len(sources) : netloc_lower(sources[k].url) = netloc_lower(url)}

\* C32 as claimed: the fragments a coroutine contributes from one domain
\* number at most the per-term cap (twice the cap for a trusted domain).
C32_FragmentsCapped ==
    \A t \in 1..Len(tasks) : \A k \in 1..Len(tasks[t].local_sources) :
        Cardinality(FragmentsFromDomainOf(tasks[t].local_sources[k].url,
                                          tasks[t].local_sources))
            <= PerTermCap(tasks[t].local_sources[k].url)

\* C32 amended: the cap bounds pages, not fragments: the fragments a
\* coroutine contributes from one host come from at most the per-term cap
\* (twice the cap for a trusted host) different URLs of that host, each
\* of them a URL the coroutine accepted.
C32_PagesCapped ==
    \A t \in 1..Len(tasks) : \A k \in 1..Len(tasks[t].local_sources) :
        LET url == tasks[t].local_sources[k].url
        IN  /\ url \in {tasks[t].accepted[a] : a \in 1..Len(tasks[t].accepted)}
            /\ Cardinality({tasks[t].local_sources[f].url :
                                f \in FragmentsFromDomainOf(url, tasks[t].local_sources)})
                   <= PerTermCap(url)

\* A coroutine has returned more fragments of an untrusted host than the
\* cap, all of the one page of that host it accepted, and passed over
\* another page of the host.
C32_Witness ==
    \E t \in 1..Len(tasks) :
        /\ tasks[t].status = "done"
        /\ \E k \in 1..Len(tasks[t].result) :
               LET url == tasks[t].result[k].url
               IN  /\ ~is_trusted_domain(url)
                   /\ Cardinality(FragmentsFromDomainOf(url, tasks[t].result))
                          > PerTermCap(url)
                   /\ Cardinality(FromDomainOf(url, tasks[t].hits))
                          > PerTermCap(url)

\* The first position of url in a list that holds it.
PositionIn(url, urls) ==
    CHOOSE k \in 1..Len(urls) :
        urls[k] = url /\ \A j \in 1..(k - 1) : urls[j] # url

\* a comes before b: no untrusted URL before a trusted one, and two URLs of
\* one kind in the order of the reference list.
TrustFirst(a, b, reference) ==
    /\ is_trusted_domain(b) => is_trusted_domain(a)
    /\ is_trusted_domain(a) = is_trusted_domain(b)
           => PositionIn(a, reference) < PositionIn(b, reference)

\* C33: the hits of a search are processed trusted first, each kind in the
\* provider's order, and so are the URLs the coroutine accepts: every
\* trusted URL is handed to the extractor before any untrusted one.
C33_TrustFirst ==
    \A t \in 1..Len(tasks) :
        LET task == tasks[t]
        IN  /\ Len(task.hits) = Len(task.results)
            /\ {task.hits[k] : k \in 1..Len(task.hits)}
                   = {task.results[k] : k \in 1..Len(task.results)}
            /\ \A a, b \in 1..Len(task.hits) :
                   a < b => TrustFirst(task.hits[a], task.hits[b], task.results)
            /\ \A a, b \in 1..Len(task.accepted) :
                   a < b => /\ TrustFirst(task.accepted[a], task.accepted[b], task.results)
                            /\ PositionIn(task.accepted[a], task.hits)
                                   < PositionIn(task.accepted[b], task.hits)

\* A search returned an untrusted hit first and trusted hits after it, and
\* the coroutine has extracted two trusted pages and then the untrusted one.
C33_Witness ==
    \E t \in 1..Len(tasks) :
        /\ tasks[t].status = "done"
        /\ Len(tasks[t].accepted) >= 3
        /\ ~is_trusted_domain(tasks[t].results[1])
        /\ is_trusted_domain(tasks[t].accepted[1])
        /\ is_trusted_domain(tasks[t].accepted[2])
        /\ tasks[t].accepted[Len(tasks[t].accepted)] = tasks[t].results[1]

\* C34: a coroutine extracts one page at a time and sleeps after each: it
\* waits for an extraction or sleeps only at the URL it accepted last, a
\* step out of an extraction leads into the sleep (or the failure) and
\* accepts nothing, and only a step out of the search or out of a sleep
\* accepts a URL, one at most, passing over the skipped hits in that step.
C34_SequentialWithDelay ==
    /\ [](\A t \in 1..Len(tasks) :
              tasks[t].status \in {"extracting", "sleeping"}
                  => /\ tasks[t].i \in 1..Len(tasks[t].hits)
                     /\ tasks[t].accepted # <<>>
                     /\ tasks[t].hits[tasks[t].i]
                            = tasks[t].accepted[Len(tasks[t].accepted)])
    /\ [][(pc = "fanout" /\ pc' = "fanout") =>
             \A t \in 1..Len(tasks) :
                 tasks'[t] # tasks[t] =>
                     CASE tasks[t].status = "extracting" ->
                              /\ tasks'[t].status \in {"sleeping", "failed"}
                              /\ tasks'[t].accepted = tasks[t].accepted
                              /\ tasks'[t].i = tasks[t].i
                       [] tasks[t].status \in {"searching", "sleeping"} ->
                              /\ tasks'[t].status \in {"extracting", "done", "failed"}
                              /\ tasks'[t].status = "extracting"
                                     => /\ Len(tasks'[t].accepted) = Len(tasks[t].accepted) + 1
                                        /\ tasks'[t].i > tasks[t].i
                              /\ tasks'[t].status # "extracting"
                                     => tasks'[t].accepted = tasks[t].accepted
                       [] OTHER -> FALSE]_vars

\* A coroutine sleeps after its second extraction, having passed over a hit
\* on its way without a sleep.
C34_Witness ==
    \E t \in 1..Len(tasks) :
        /\ tasks[t].status = "sleeping"
        /\ Len(tasks[t].accepted) = 2
        /\ tasks[t].i > 2

AcceptedBy(t) == {tasks[t].accepted[a] : a \in 1..Len(tasks[t].accepted)}

\* C38: a URL is claimed before its extraction starts and the claim is
\* never undone: the step that starts an extraction has put the URL into
\* the seen set and raised the coroutine's count of its domain; during a
\* round the seen set and the counts never shrink, whatever the extraction
\* yields; a coroutine that failed returns the empty list while every URL
\* it accepted stays in the seen set, and no URL is accepted by two
\* coroutines of the round.
C38_ClaimsNotRolledBack ==
    /\ [](\A t \in 1..Len(tasks) :
              /\ AcceptedBy(t) \subseteq seen_urls
              /\ tasks[t].status = "failed" => tasks[t].result = <<>>
              /\ \A url \in AcceptedBy(t) :
                     Get(tasks[t].domain_counts, netloc_lower(url))
                         = Cardinality(FromDomainOf(url, tasks[t].accepted))
              /\ \A u \in 1..Len(tasks) : u # t => AcceptedBy(t) \cap AcceptedBy(u) = {})
    /\ [][(pc = "fanout" /\ pc' = "fanout") =>
             /\ seen_urls \subseteq seen_urls'
             /\ \A t \in 1..Len(tasks) :
                    /\ \A url \in {tasks'[t].hits[k] : k \in 1..Len(tasks'[t].hits)} :
                         Get(tasks'[t].domain_counts, netloc_lower(url))
                             >= Get(tasks[t].domain_counts, netloc_lower(url))
                    /\ (tasks[t].status # "extracting" /\ tasks'[t].status = "extracting")
                           => LET url == tasks'[t].hits[tasks'[t].i]
                              IN  /\ url \notin seen_urls
                                  /\ url \in seen_urls'
                                  /\ Get(tasks'[t].domain_counts, netloc_lower(url))
                                         = Get(tasks[t].domain_counts, netloc_lower(url)) + 1
                                  /\ tasks'[t].local_sources = tasks[t].local_sources]_vars

\* A coroutine failed after it had extracted fragments, which its empty
\* result drops; another coroutine ran to its end and passed over a URL the
\* failed one had claimed.
C38_Witness ==
    \E t, u \in 1..Len(tasks) :
        /\ tasks[t].status = "failed"
        /\ tasks[t].local_sources # <<>>
        /\ tasks[t].result = <<>>
        /\ tasks[u].status = "done"
        /\ \E k \in 1..Len(tasks[u].hits) :
               /\ tasks[u].hits[k] \in AcceptedBy(t)
               /\ tasks[u].hits[k] \notin AcceptedBy(u)

(***************************************************************************)
(* Properties of the final selection (SpecFinal)                           *)
(***************************************************************************)
Allocated == phase = "allocated"

TrustedCount(list) == Cardinality({j \in 1..Len(list) : list[j].is_trusted})

\* ceil(0.6 x budget)
CeilSixTenths(budget) == (6 * budget + 9) \div 10

\* C13: the list the final selection returns is taken from the accumulated
\* fragments and holds at most MAX_TOTAL_SOURCES fragments, at most
\* 3 x MAX_SOURCES_PER_DOMAIN_FINAL of any one domain, and at most
\* ceil(0.6 x MAX_TOTAL_SOURCES) trusted fragments.
C13_FinalAllocationCaps ==
    Allocated =>
        /\ \A i \in 1..Len(returned) : InList(returned[i], iterative_sources)
        /\ Len(returned) <= Config.MAX_TOTAL_SOURCES
        /\ \A i \in 1..Len(returned) :
               DomainCount(returned, DomainKey(returned[i]))
                   <= 3 * Config.MAX_SOURCES_PER_DOMAIN_FINAL
        /\ TrustedCount(returned) <= CeilSixTenths(Config.MAX_TOTAL_SOURCES)

\* The trusted quota stopped the trusted pass with trusted fragments left,
\* and a domain holds 3 x the final cap with fragments of it left out.
C13_Witness ==
    /\ Allocated
    /\ TrustedCount(returned) = CeilSixTenths(Config.MAX_TOTAL_SOURCES)
    /\ TrustedCount(iterative_sources) > TrustedCount(returned)
    /\ \E i \in 1..Len(returned) :
           /\ DomainCount(returned, DomainKey(returned[i]))
                  = 3 * Config.MAX_SOURCES_PER_DOMAIN_FINAL
           /\ DomainCount(iterative_sources, DomainKey(returned[i]))
                  > 3 * Config.MAX_SOURCES_PER_DOMAIN_FINAL

(***************************************************************************)
(* Properties of the classifier (SpecClassify)                             *)
(***************************************************************************)
\* The host a call is about: the netloc of its text (empty when the text
\* has no "//" or cannot be parsed), lower-cased, without a leading www.
HostOf(call) ==
    LET lowered == LowerAll(call.host)
    IN  IF call.prefix = <<>> \/ call.host = <<"[bad">> THEN <<>>
        ELSE IF Len(lowered) > 1 /\ lowered[1] = "www" THEN Tail(lowered)
        ELSE lowered

\* The categories with their fixed scores, in the order of the registry.
CategoryScores ==
    << <<"academic_research_trusted", 95>>,
       <<"official_government_trusted", 90>>,
       <<"peer_reviewed_science", 90>>,
       <<"mainstream_verified_media", 80>>,
       <<"technical_documentation_trusted", 85>>,
       <<"educational_open_trusted", 75>>,
       <<"independent_factcheck_trusted", 85>> >>

InRegistry(host, k) == host \in RegistryOrder[k][2]

MatchesPattern(host, k) == \E p \in DOMAIN_PATTERNS[k][2] : EndsWithLabels(host, p)

ScoreOf(flag) ==
    LET k == CHOOSE i \in 1..Len(CategoryScores) : CategoryScores[i][1] = flag
    IN  CategoryScores[k][2]

\* C16: every call of get_domain_trust_info returns, and what it returns is
\* fixed by the host: a host in a registry set gets the category of the set
\* and its score with is_trusted, otherwise a host a suffix pattern matches
\* gets the category of the pattern and its score with is_trusted,
\* otherwise the result is unverified, 50, not trusted; is_trusted holds
\* exactly when the category is not unverified.
C16_ClassifyByHost ==
    \A c \in 1..Len(classify_calls) :
        LET host == HostOf(classify_calls[c])
            info == classify_calls[c].info
            sets == {k \in 1..Len(RegistryOrder) : InRegistry(host, k)}
            pats == {k \in 1..Len(DOMAIN_PATTERNS) : MatchesPattern(host, k)}
        IN  /\ info.domain = host
            /\ sets # {} =>
                   /\ \E k \in sets : info.trust_flag = RegistryOrder[k][1]
                   /\ info.trust_score = ScoreOf(info.trust_flag)
                   /\ info.is_trusted
            /\ (sets = {} /\ pats # {}) =>
                   /\ \E k \in pats : info.trust_flag = DOMAIN_PATTERNS[k][1]
                   /\ info.trust_score = ScoreOf(info.trust_flag)
                   /\ info.is_trusted
            /\ (sets = {} /\ pats = {}) =>
                   /\ info.trust_flag = "unverified"
                   /\ info.trust_score = 50
                   /\ ~info.is_trusted
            /\ info.is_trusted <=> info.trust_flag # "unverified"

\* A host of the science registry that the government pattern matches too
\* was classified as science.
C16_Witness ==
    \E c \in 1..Len(classify_calls) :
        /\ classify_calls[c].host = <<"ncbi", "nlm", "nih", "gov">>
        /\ classify_calls[c].prefix # <<>>
        /\ classify_calls[c].info.trust_flag = "peer_reviewed_science"
        /\ classify_calls[c].info.trust_score = 90

\* C17: two calls on texts with the same prefix and host, whatever their
\* path, query string and fragment (the same text twice included), return
\* the same result.
C17_HostOnly ==
    \A c, d \in 1..Len(classify_calls) :
        (/\ classify_calls[c].prefix = classify_calls[d].prefix
         /\ classify_calls[c].host = classify_calls[d].host) =>
            classify_calls[c].info = classify_calls[d].info

\* Two calls on a trusted host, one text with a query string right behind
\* the host, the other with path, query string and fragment.
C17_Witness ==
    /\ Len(classify_calls) = 2
    /\ classify_calls[1].host = classify_calls[2].host
    /\ classify_calls[1].prefix = <<"https", ":", "//">>
    /\ classify_calls[2].prefix = <<"https", ":", "//">>
    /\ classify_calls[1].tail = <<"?", "q">>
    /\ classify_calls[2].tail = <<"/", "a", "?", "q", "#", "f">>
    /\ classify_calls[1].info.is_trusted

(***************************************************************************)
(* Properties of the relevance scorer (SpecScore)                          *)
(***************************************************************************)
\* C18: whatever the content, the keywords, the section name, the title and
\* the url, the score returned lies between 0.0 and 1.0.
C18_ScoreBounded ==
    \A url \in DOMAIN scored :
        /\ scored[url].value >= 0
        /\ scored[url].value <= FullScore

\* The factors of a call multiplied and added up to more than 1.0 (long
\* content, good density, keywords in title and section, a trusted url) and
\* 1.0 was returned.
C18_Witness ==
    \E url \in DOMAIN scored :
        /\ scored[url].raw > FullScore
        /\ scored[url].value = FullScore
        /\ StrippedLen(content) > 1000
        /\ is_trusted_domain(url)

\* C19: of two calls with the same content, keywords, section name and
\* title, one on a url of a trusted domain and one on a url of a domain that
\* is not, the first returns at least what the second returns.
C19_TrustMonotone ==
    \A u1, u2 \in DOMAIN scored :
        (is_trusted_domain(u1) /\ ~is_trusted_domain(u2)) =>
            scored[u1].value >= scored[u2].value

\* The trusted url scored strictly higher than the untrusted one, whose
\* score is not 0.0.
C19_Witness ==
    \E u1, u2 \in DOMAIN scored :
        /\ is_trusted_domain(u1) /\ ~is_trusted_domain(u2)
        /\ scored[u2].value > 0
        /\ scored[u1].value > scored[u2].value

\* C20: with empty content or without keywords every call returns 0.0 at
\* line 77: no factor is computed, no trust information is looked up and
\* nothing is printed.
C20_EmptyInputsScoreZero ==
    (content = <<>> \/ keywords = <<>>) =>
        \A url \in DOMAIN scored :
            /\ scored[url].value = 0
            /\ ~scored[url].evaluated
            /\ ~scored[url].printed

\* A call without content whose keywords are in the title and in the
\* section name, on a trusted url; and calls on all three urls.
C20_Witness ==
    /\ content = <<>>
    /\ keywords # <<>>
    /\ Contains(LowerText(title), LowerText(keywords[1]))
    /\ Contains(LowerText(section_name), LowerText(keywords[1]))
    /\ DOMAIN scored = ScoreUrls

\* C35: a keyword of several words that is not in the content as a whole,
\* while one of its words is, gets credit as a partial match: the base
\* score of a call with such a keyword is above 0.
C35_PartialMatchCredit ==
    \A url \in DOMAIN scored :
        scored[url].evaluated =>
            \A k \in 1..Len(keywords) :
                (/\ Len(keywords[k]) > 1
                 /\ ~Contains(LowerText(content), LowerText(keywords[k]))
                 /\ \E r \in 1..Len(keywords[k]) :
                        Contains(LowerText(content), <<LowerText(keywords[k])[r]>>))
                    => base_score(LowerText(content), keywords) > 0

(***************************************************************************)
(* Properties of calls outside the contract (SpecInvalid)                  *)
(***************************************************************************)
NegativeCap ==
    Config.MAX_SOURCES_PER_DOMAIN_FINAL < 0 \/ Config.MAX_TOTAL_SOURCES < 0

\* C21 as stated: a negative cap in the configuration of the allocator, or
\* an empty keyword set passed to the scorer, makes the operation fail with
\* an error instead of producing a normal result: no selection is returned
\* under a negative cap and no score is returned without keywords.
C21_FailsFast ==
    /\ NegativeCap => phase # "selected"
    /\ (phase = "score" /\ keywords = <<>>) => DOMAIN scored = {}

\* C21: neither argument is checked and both operations return normally.
\* Without keywords the scorer returns 0.0.  Under a negative per-domain cap
\* the allocator returns the empty list; under a negative budget with a
\* positive per-domain cap the first pass admits at most one trusted
\* fragment, the second pass admits none, and the floor pass fills the list
\* up, so that a pool that is not empty gives a list that is not empty.
C21_ReturnsNormally ==
    /\ (phase = "score" /\ keywords = <<>>) =>
           \A url \in DOMAIN scored : scored[url].value = 0
    /\ (phase = "selected" /\ Config.MAX_SOURCES_PER_DOMAIN_FINAL < 0) =>
           final_sources = <<>>
    /\ (phase = "selected" /\ Config.MAX_TOTAL_SOURCES < 0
                           /\ Config.MAX_SOURCES_PER_DOMAIN_FINAL > 0) =>
           /\ Len(pass1_sources) <= 1
           /\ pass2_sources = pass1_sources
           /\ Len(final_sources) <= MIN_SOURCES
           /\ unique_sources # <<>> => final_sources # <<>>

\* Under a negative budget the allocator returned a list of several
\* fragments, trusted and untrusted, from a pool with both.
C21_Witness ==
    /\ phase = "selected"
    /\ Config.MAX_TOTAL_SOURCES < 0
    /\ Len(pass1_sources) = 1
    /\ Len(final_sources) > 2
    /\ \E j \in 1..Len(final_sources) : ~final_sources[j].is_trusted

(***************************************************************************)
(* Properties of search_web (SpecSearch)                                   *)
(***************************************************************************)
\* C23: a failure of the provider never raises out of search_web; the
\* provider is called a second time exactly when the first call failed, once
\* and with the same query and the other parameters; when the second call
\* fails too the empty list is returned.
C23_RetryOnceThenEmpty ==
    /\ search_pc # "raised"
    /\ Len(provider_calls) <= 2
    /\ Len(provider_calls) >= 1 => provider_calls[1].params = PrimaryParams
    /\ Len(provider_calls) = 2 =>
           /\ ~provider_calls[1].ok
           /\ provider_calls[2].params = FallbackParams
           /\ provider_calls[2].params # provider_calls[1].params
           /\ provider_calls[2].query = provider_calls[1].query
           /\ provider_calls[2].max_results = provider_calls[1].max_results
    /\ search_pc = "returned" =>
           /\ Len(provider_calls) >= 1
           /\ ~provider_calls[1].ok => Len(provider_calls) = 2
           /\ ~provider_calls[Len(provider_calls)].ok => search_result = <<>>

\* Both calls failed and the empty list was returned.
C23_Witness ==
    /\ search_pc = "returned"
    /\ Len(provider_calls) = 2
    /\ ~provider_calls[1].ok
    /\ ~provider_calls[2].ok
    /\ search_result = <<>>

(***************************************************************************)
(* Properties of the search lifecycle (SpecQuota)                          *)
(***************************************************************************)
\* C24: a call of execute_search that ends by raising after it decremented
\* the quota has refunded it exactly once; a call that ends with
\* QuotaExceededError, and any call that did not decrement, has refunded
\* nothing.
C24_RefundOnFailure ==
    \A r \in DOMAIN lifecycles :
        /\ lifecycles[r].refunds <= 1
        /\ lifecycles[r].pc = "raised" =>
               lifecycles[r].refunds = IF lifecycles[r].quota_decremented THEN 1 ELSE 0
        /\ lifecycles[r].error = "QuotaExceededError" => lifecycles[r].refunds = 0

(***************************************************************************)
(* Properties of the webhook deliveries (SpecWebhook)                      *)
(***************************************************************************)
\* C25: whatever the interleaving of the deliveries of an event, its effect
\* is applied at most once and at most one delivery of it returns
\* 'processed'.
C25_AppliedAtMostOnce ==
    \A e \in DOMAIN applied :
        /\ applied[e] <= 1
        /\ Cardinality({d \in DOMAIN deliveries :
                           /\ deliveries[d].event_id = e
                           /\ deliveries[d].status = "processed"}) <= 1

(***************************************************************************)
(* Properties of the summarizer (SpecSummarize)                            *)
(***************************************************************************)
\* C36: the text generation calls in flight never outnumber the configured
\* limit, and when the call of the summarizer is over, every source with
\* content has been attempted once.
C36_BoundedPoolAllAttempted ==
    /\ summarizer_pc = "gather" =>
           Cardinality({k \in 1..Len(summarize_tasks) :
                           summarize_tasks[k].status = "calling"})
               <= Config.MAX_CONCURRENT_LLM_CALLS
    /\ summarizer_pc \in {"returned", "raised"} =>
           \A i \in 1..Len(summarize_sources) :
               summarize_sources[i] # "" =>
                   Cardinality({k \in 1..Len(summarize_tasks) :
                                   /\ summarize_tasks[k].source = i
                                   /\ summarize_tasks[k].attempts = 1}) = 1

(***************************************************************************)
(* Properties of the extractor (SpecExtract)                               *)
(***************************************************************************)
\* C11: a call of extract_content_with_sections in which the fetch or the
\* parse fails, at whatever point of the extraction, returns the empty list
\* (and returns: the failure does not reach the caller).
C11_EmptyOnFailure ==
    (extract_pc = "returned" /\ extract_failed) => extract_result = <<>>

====
